---- MODULE Spec2Model ----
(***************************************************************************)
(* A model of the hybrid extraction and chunk-assembly engine:             *)
(*   - HybridPyMuPDFOCRChunker.extract_paragraphs_ocr, the per-page line   *)
(*     scan that recognizes numbered paragraphs (src/hybrid_chunking.py);  *)
(*   - DatabricksHybridChunker.process_document_distributed and            *)
(*     _process_page_partition, the distributed orchestrator               *)
(*     (src/databricks_hybrid_chunking.py);                                *)
(*   - HybridPyMuPDFOCRChunker.process_document and                        *)
(*     create_semantic_chunks, the sequential run and the chunk assembler; *)
(*   - HybridPyMuPDFOCRChunker.extract_footnotes_pymupdf, the per-page     *)
(*     scan of the text layer that recognizes footnotes, with its          *)
(*     validation and confidence score, and process_page.                  *)
(* Text is modelled character by character: a Python str is a sequence of  *)
(* one-character strings, so that regular expressions, strip, split, join  *)
(* and len are computed as the code computes them.                         *)
(***************************************************************************)
EXTENDS Integers, Sequences, FiniteSets, TLC

\* ------------------------------------------------------------------------
\* Bounds of the model
\* ------------------------------------------------------------------------

\* longest sequence of OCR lines given to the Paragraph Recognizer
MaxLines == 3

\* largest 0-based page index given to the Paragraph Recognizer
MaxPageIndex == 1

\* ------------------------------------------------------------------------
\* Python values
\* ------------------------------------------------------------------------

\* Python's None, where the other values of the variable are non-empty
\* strings (a captured \d{1,4} group is never empty).
None == << >>

Max(S) == CHOOSE x \in S : \A y \in S : y <= x

Min2(a, b) == IF a <= b THEN a ELSE b

Digits == {"0", "1", "2", "3", "4", "5", "6", "7", "8", "9"}

IsDigit(c) == c \in Digits

\* int(c) for a digit c
DigitValue(c) ==
    CASE c = "0" -> 0 [] c = "1" -> 1 [] c = "2" -> 2 [] c = "3" -> 3
      [] c = "4" -> 4 [] c = "5" -> 5 [] c = "6" -> 6 [] c = "7" -> 7
      [] c = "8" -> 8 [] c = "9" -> 9

\* the characters \s matches and str.strip() removes, among those of a line
IsSpace(c) == c \in {" ", "\t"}

\* s[i:] of Python, i a 0-based offset
From(s, i) == SubSeq(s, i + 1, Len(s))

\* str.strip()
Strip(s) ==
    LET keep == {i \in 1..Len(s) : ~IsSpace(s[i])}
    IN  IF keep = {} THEN << >>
        ELSE SubSeq(s, CHOOSE i \in keep : \A j \in keep : i <= j, Max(keep))

\* ' '.join(parts)
RECURSIVE Join(_)
Join(parts) ==
    IF Len(parts) = 0 THEN << >>
    ELSE IF Len(parts) = 1 THEN parts[1]
    ELSE parts[1] \o << " " >> \o Join(Tail(parts))

\* len(s.split()): the number of whitespace-delimited tokens of s
WordCount(s) ==
    Cardinality({i \in 1..Len(s) :
        ~IsSpace(s[i]) /\ (i = 1 \/ IsSpace(s[i - 1]))})

UpperCase == << "A", "B", "C", "D", "E", "F", "G", "H", "I", "J", "K", "L", "M",
                "N", "O", "P", "Q", "R", "S", "T", "U", "V", "W", "X", "Y", "Z" >>

LowerCase == << "a", "b", "c", "d", "e", "f", "g", "h", "i", "j", "k", "l", "m",
                "n", "o", "p", "q", "r", "s", "t", "u", "v", "w", "x", "y", "z" >>

\* str.lower()
LowerChar(c) ==
    IF \E i \in 1..26 : UpperCase[i] = c
    THEN LowerCase[CHOOSE i \in 1..26 : UpperCase[i] = c]
    ELSE c

Lower(s) == [i \in 1..Len(s) |-> LowerChar(s[i])]

\* w in s, for strings
Contains(s, w) ==
    \E i \in 1..(Len(s) - Len(w) + 1) : SubSeq(s, i, i + Len(w) - 1) = w

\* ------------------------------------------------------------------------
\* Configuration (HYBRID_CHUNKING_CONFIG)
\* ------------------------------------------------------------------------

\* primary patterns that take numbers of one or two digits only
PrimaryUpToTwoDigits ==
    << [lo |-> 1, hi |-> 2, space |-> TRUE],
       [lo |-> 1, hi |-> 2, space |-> FALSE] >>

\* A pattern ^(\d{lo,hi})\.\s+ (space = TRUE) or ^(\d{lo,hi})\. (space = FALSE)
paragraph_number_patterns ==
    << [lo |-> 1, hi |-> 4, space |-> TRUE],
       [lo |-> 1, hi |-> 4, space |-> FALSE] >>

high_number_patterns ==
    << [lo |-> 4, hi |-> 4, space |-> TRUE],
       [lo |-> 3, hi |-> 4, space |-> TRUE] >>

\* the indicators of _is_valid_paragraph
ParagraphIndicators ==
    { << "c", "h", "a", "m", "b", "e", "r" >>,
      << "c", "o", "u", "r", "t" >>,
      << "e", "v", "i", "d", "e", "n", "c", "e" >>,
      << "s", "t", "a", "t", "u", "t", "e" >>,
      << "a", "r", "t", "i", "c", "l", "e" >> }

\* len(content) < 50 is rejected
MinParagraphLen == 50

\* fewer than 10 tokens is rejected when no indicator is present
MinParagraphWords == 10

\* ------------------------------------------------------------------------
\* Regular expressions of the Paragraph Recognizer
\* ------------------------------------------------------------------------

\* the number of whitespace characters of s from 1-based position i on
RECURSIVE SpaceRun(_, _)
SpaceRun(s, i) ==
    IF i <= Len(s) /\ IsSpace(s[i]) THEN 1 + SpaceRun(s, i + 1) ELSE 0

\* The digit counts k for which \d{lo,hi} followed by the rest of the pattern
\* matches at the start of the line.
PatternCounts(p, line) ==
    {k \in p.lo..p.hi :
        /\ k + 1 <= Len(line)
        /\ \A j \in 1..k : IsDigit(line[j])
        /\ line[k + 1] = "."
        /\ p.space => (k + 2 <= Len(line) /\ IsSpace(line[k + 2]))}

\* re.match(pattern, line): None, or the match with group(1) and end();
\* the quantifiers are greedy.
ReMatch(p, line) ==
    IF PatternCounts(p, line) = {} THEN None
    ELSE LET k == Max(PatternCounts(p, line))
         IN  [group1 |-> SubSeq(line, 1, k),
              end    |-> IF p.space THEN k + 1 + SpaceRun(line, k + 2) ELSE k + 1]

\* the first pattern of the list that matches, as the for/break loops find it
RECURSIVE FirstMatch(_, _)
FirstMatch(patterns, line) ==
    IF Len(patterns) = 0 THEN None
    ELSE IF ReMatch(Head(patterns), line) # None THEN ReMatch(Head(patterns), line)
    ELSE FirstMatch(Tail(patterns), line)

\* para_match of one line: the primary patterns, then the high-number ones
ParaMatch(line) ==
    IF FirstMatch(paragraph_number_patterns, line) # None
    THEN FirstMatch(paragraph_number_patterns, line)
    ELSE FirstMatch(high_number_patterns, line)

\* re.findall(r'(\d{1,3})', content): greedy, non-overlapping, left to right
RECURSIVE DigitRun(_, _)
DigitRun(s, i) ==
    IF i <= Len(s) /\ IsDigit(s[i]) THEN 1 + DigitRun(s, i + 1) ELSE 0

\* The matches from the 1-based position i on. A match starts at a digit
\* that has a multiple of 3 digits of its run before it (counted from i),
\* and takes up to 3 digits.
FindAllDigits(s, i) ==
    LET before(j) == j - Max({i - 1} \cup {m \in i..(j - 1) : ~IsDigit(s[m])}) - 1
        starts    == {j \in i..Len(s) : IsDigit(s[j]) /\ before(j) % 3 = 0}
        nth(k)    == CHOOSE j \in starts : Cardinality({m \in starts : m < j}) = k - 1
    IN  [k \in 1..Cardinality(starts) |->
            SubSeq(s, nth(k), nth(k) + Min2(3, DigitRun(s, nth(k))) - 1)]

_extract_footnote_references(content) == FindAllDigits(content, 1)

\* a validation that stops after the length test
ValidByLengthOnly(content) == Len(content) >= MinParagraphLen

_is_valid_paragraph(content) ==
    IF Len(content) < MinParagraphLen THEN FALSE
    ELSE IF \E w \in ParagraphIndicators : Contains(Lower(content), w) THEN TRUE
    ELSE WordCount(content) >= MinParagraphWords

\* ------------------------------------------------------------------------
\* Lines of a page, as the OCR and the header/footer filter deliver them
\* ------------------------------------------------------------------------

\* '1. The Chamber finds that the accused was present at the scene.' (63 characters)
LineValid1 ==
    << "1", ".", " ", "T", "h", "e", " ", "C", "h", "a", "m", "b", "e", "r",
       " ", "f", "i", "n", "d", "s", " ", "t", "h", "a", "t", " ", "t", "h",
       "e", " ", "a", "c", "c", "u", "s", "e", "d", " ", "w", "a", "s", " ",
       "p", "r", "e", "s", "e", "n", "t", " ", "a", "t", " ", "t", "h", "e",
       " ", "s", "c", "e", "n", "e", "." >>

\* '2. Short text' (13 characters)
LineShort2 ==
    << "2", ".", " ", "S", "h", "o", "r", "t", " ", "t", "e", "x", "t" >>

\* '1. Again' (8 characters)
LineDup1 ==
    << "1", ".", " ", "A", "g", "a", "i", "n" >>

\* 'and the witness confirmed this account on 12 occasions in 2014' (62 characters)
LineCont ==
    << "a", "n", "d", " ", "t", "h", "e", " ", "w", "i", "t", "n", "e", "s",
       "s", " ", "c", "o", "n", "f", "i", "r", "m", "e", "d", " ", "t", "h",
       "i", "s", " ", "a", "c", "c", "o", "u", "n", "t", " ", "o", "n", " ",
       "1", "2", " ", "o", "c", "c", "a", "s", "i", "o", "n", "s", " ", "i",
       "n", " ", "2", "0", "1", "4" >>

\* '2.No space after the number but the court accepted it anyway' (60 characters)
LineNoSpace2 ==
    << "2", ".", "N", "o", " ", "s", "p", "a", "c", "e", " ", "a", "f", "t",
       "e", "r", " ", "t", "h", "e", " ", "n", "u", "m", "b", "e", "r", " ",
       "b", "u", "t", " ", "t", "h", "e", " ", "c", "o", "u", "r", "t", " ",
       "a", "c", "c", "e", "p", "t", "e", "d", " ", "i", "t", " ", "a", "n",
       "y", "w", "a", "y" >>

\* '12345. five digits is not a paragraph number' (44 characters)
LineFiveDigits ==
    << "1", "2", "3", "4", "5", ".", " ", "f", "i", "v", "e", " ", "d", "i",
       "g", "i", "t", "s", " ", "i", "s", " ", "n", "o", "t", " ", "a", " ",
       "p", "a", "r", "a", "g", "r", "a", "p", "h", " ", "n", "u", "m", "b",
       "e", "r" >>

\* '3. EVIDENCE of considerable importance notwithstanding objections' (65 characters)
LineKeyword3 ==
    << "3", ".", " ", "E", "V", "I", "D", "E", "N", "C", "E", " ", "o", "f",
       " ", "c", "o", "n", "s", "i", "d", "e", "r", "a", "b", "l", "e", " ",
       "i", "m", "p", "o", "r", "t", "a", "n", "c", "e", " ", "n", "o", "t",
       "w", "i", "t", "h", "s", "t", "a", "n", "d", "i", "n", "g", " ", "o",
       "b", "j", "e", "c", "t", "i", "o", "n", "s" >>

\* the lines a page is made of in this model
LinePool ==
    {LineValid1, LineShort2, LineDup1, LineCont, LineNoSpace2, LineFiveDigits,
     LineKeyword3}

RECURSIVE SeqsUpTo(_, _)
SeqsUpTo(S, n) ==
    IF n = 0 THEN {<< >>}
    ELSE SeqsUpTo(S, n - 1) \cup
         {Append(s, x) : s \in {t \in SeqsUpTo(S, n - 1) : Len(t) = n - 1}, x \in S}

\* ------------------------------------------------------------------------
\* State
\* ------------------------------------------------------------------------

VARIABLES
    \* extract_paragraphs_ocr(lines, page_num)
    lines,          \* the argument lines
    page_num,       \* the argument page_num (0-based)
    line_num,       \* the number of lines the for loop has consumed
    current_para,   \* the buffered lines of the accumulating paragraph
    current_num,    \* its number, or None
    seen_numbers,   \* the numbers emitted on this page
    paragraphs,     \* the paragraphs emitted so far
    ocr_pc,         \* "loop" inside the for loop, "done" after the return
    \* the PDF file at pdf_path
    pdf_readable,   \* whether fitz.open(pdf_path) succeeds
    pdf_pages,      \* the pages of the document, one PageKinds value each
    \* DatabricksHybridChunker.process_document_distributed
    config_skip,    \* config['skip_first_pages']
    config_per,     \* config['pages_per_partition']
    total_pages,    \* self.total_pages
    page_partitions,\* the partitions handed to parallelize
    tasks,          \* the state of _process_page_partition, one per partition
    all_results,    \* results_rdd.collect()
    result,         \* the dictionary returned, or None
    orch_pc,        \* "idle", "start", "running", "returned" or "raised"
    \* HybridPyMuPDFOCRChunker.process_document
    self_doc,       \* self.doc: "None" or "Document"
    loop_page,      \* page_num of the loop over the pages
    all_paragraphs, \* the local all_paragraphs
    all_footnotes,  \* the local all_footnotes
    self_paragraphs,\* self.paragraphs
    self_footnotes, \* self.footnotes
    \* HybridPyMuPDFOCRChunker.create_semantic_chunks
    paragraphs_by_page, \* the dictionary of the paragraphs of each page
    page_keys,      \* sorted(paragraphs_by_page.keys())
    key_idx,        \* the number of pages the loop has taken
    page_paragraphs,\* the paragraphs of the current page
    page_footnotes, \* the footnotes of the current page
    para_idx,       \* the number of paragraphs of the page made into chunks
    foot_idx,       \* the number of footnotes of the page made into chunks
    chunks,         \* the chunks made so far
    chunk_id,       \* the counter of the chunk identifiers
    doc_pc,         \* "idle", "start", "pages", "processed", "chunking",
                    \* "done" or "raised"
    \* HybridPyMuPDFOCRChunker.extract_footnotes_pymupdf(page_num)
    fn_lines,       \* the local lines: text.split('\n')
    fn_page,        \* the argument page_num (0-based)
    fn_idx,         \* the number of lines the for loop has consumed
    footnotes,      \* the local footnotes
    current_footnote, \* the local current_footnote: a Footnote or None
    fn_scan,        \* 1 during the first call on the page, 2 during the second
    first_footnotes,\* the list the first call returned
    fn_pc           \* "idle", "loop" inside the for loop, "done" after the return

paraVars ==
    << lines, page_num, line_num, current_para, current_num, seen_numbers,
       paragraphs, ocr_pc >>

pdfVars == << pdf_readable, pdf_pages >>

orchVars ==
    << config_skip, config_per, total_pages, page_partitions, tasks,
       all_results, result, orch_pc >>

chunkVars ==
    << paragraphs_by_page, page_keys, key_idx, page_paragraphs, page_footnotes,
       para_idx, foot_idx, chunks, chunk_id >>

docVars ==
    << self_doc, loop_page, all_paragraphs, all_footnotes, self_paragraphs,
       self_footnotes, chunkVars, doc_pc >>

footVars ==
    << fn_lines, fn_page, fn_idx, footnotes, current_footnote, fn_scan,
       first_footnotes, fn_pc >>

vars == << paraVars, pdfVars, orchVars, docVars, footVars >>

\* the Paragraph Recognizer is not running
ParaIdle ==
    /\ lines = << >>
    /\ page_num = 0
    /\ line_num = 0
    /\ current_para = << >>
    /\ current_num = None
    /\ seen_numbers = {}
    /\ paragraphs = << >>
    /\ ocr_pc = "idle"

\* no document is at hand
PdfIdle ==
    /\ pdf_readable = FALSE
    /\ pdf_pages = << >>

\* the Footnote Recognizer is not running
FootIdle ==
    /\ fn_lines = << >>
    /\ fn_page = 0
    /\ fn_idx = 0
    /\ footnotes = << >>
    /\ current_footnote = None
    /\ fn_scan = 1
    /\ first_footnotes = << >>
    /\ fn_pc = "idle"

\* the distributed orchestrator is not running
OrchIdle ==
    /\ config_skip = 0
    /\ config_per = 1
    /\ total_pages = 0
    /\ page_partitions = << >>
    /\ tasks = << >>
    /\ all_results = << >>
    /\ result = None
    /\ orch_pc = "idle"

\* the sequential run and the chunk assembler are not running
DocIdle ==
    /\ self_doc = "None"
    /\ loop_page = 0
    /\ all_paragraphs = << >>
    /\ all_footnotes = << >>
    /\ self_paragraphs = << >>
    /\ self_footnotes = << >>
    /\ paragraphs_by_page = << >>
    /\ page_keys = << >>
    /\ key_idx = 0
    /\ page_paragraphs = << >>
    /\ page_footnotes = << >>
    /\ para_idx = 0
    /\ foot_idx = 0
    /\ chunks = << >>
    /\ chunk_id = 1
    /\ doc_pc = "idle"

\* ------------------------------------------------------------------------
\* Paragraph Recognizer: HybridPyMuPDFOCRChunker.extract_paragraphs_ocr
\* ------------------------------------------------------------------------

\* an estimate rounded to the nearest integer
TokenCountRounded(content) == (13 * WordCount(content) + 5) \div 10

\* int(len(content.split()) * 1.3)
TokenCount(content) == (13 * WordCount(content)) \div 10

\* the LegalParagraph built when a paragraph is closed at line offset ln;
\* confidence is counted in tenths (0.8)
LegalParagraph(num, content, pg, buffered, ln) ==
    [number              |-> num,
     content             |-> content,
     page                |-> pg + 1,
     section_type        |-> "main_text",
     token_count         |-> TokenCount(content),
     footnote_references |-> _extract_footnote_references(content),
     start_line          |-> ln - buffered,
     end_line            |-> ln,
     extraction_method   |-> "hybrid_ocr",
     confidence          |-> 8]

\* "if current_para and current_num and current_num not in seen_numbers"
\* followed by the validation of the joined content
Closes(para, num, seen) ==
    /\ Len(para) > 0
    /\ num # None
    /\ num \notin seen
    /\ _is_valid_paragraph(Strip(Join(para)))

\* the paragraphs after the save of the previous paragraph at offset ln
SavedParagraphs(ps, para, num, seen, pg, ln) ==
    IF Closes(para, num, seen)
    THEN Append(ps, LegalParagraph(num, Strip(Join(para)), pg, Len(para), ln))
    ELSE ps

\* a save that forgets to record the number it emitted
SavedSeenForgets(para, num, seen) == seen

\* seen_numbers after the save
SavedSeen(para, num, seen) ==
    IF Closes(para, num, seen) THEN seen \cup {num} ELSE seen

\* a test that lets every number start an accumulation
StartsAlways(new_num, seen) == TRUE

\* "if new_num not in seen_numbers"
StartsNew(new_num, seen) == new_num \notin seen

\* a start that appends to the buffer instead of replacing it
GrownParagraph(para, line, m) == Append(para, Strip(From(line, m.end)))

\* "current_para = [line[para_match.end():].strip()]"
StartedParagraph(para, line, m) == << Strip(From(line, m.end)) >>

ParaInit ==
    /\ lines \in SeqsUpTo(LinePool, MaxLines)
    /\ page_num \in 0..MaxPageIndex
    /\ line_num = 0
    /\ current_para = << >>
    /\ current_num = None
    /\ seen_numbers = {}
    /\ paragraphs = << >>
    /\ ocr_pc = "loop"

\* one iteration of the for loop on a line that matches a number pattern
NumberLine ==
    /\ ocr_pc = "loop"
    /\ line_num < Len(lines)
    /\ LET line == lines[line_num + 1]
           m    == ParaMatch(line)
           seen == SavedSeen(current_para, current_num, seen_numbers)
       IN  /\ m # None
           /\ paragraphs' = SavedParagraphs(paragraphs, current_para, current_num,
                                            seen_numbers, page_num, line_num)
           /\ seen_numbers' = seen
           /\ IF StartsNew(m.group1, seen)
              THEN /\ current_num' = m.group1
                   /\ current_para' = StartedParagraph(current_para, line, m)
              ELSE /\ current_para' = << >>
                   /\ current_num' = None
    /\ line_num' = line_num + 1
    /\ UNCHANGED << lines, page_num, ocr_pc >>
    /\ UNCHANGED << pdfVars, footVars, orchVars, docVars >>

\* one iteration of the for loop on a line that matches no number pattern
ContinuationLine ==
    /\ ocr_pc = "loop"
    /\ line_num < Len(lines)
    /\ ParaMatch(lines[line_num + 1]) = None
    /\ current_para' =
          IF Len(current_para) > 0
          THEN Append(current_para, lines[line_num + 1])
          ELSE current_para
    /\ line_num' = line_num + 1
    /\ UNCHANGED << lines, page_num, current_num, seen_numbers, paragraphs, ocr_pc >>
    /\ UNCHANGED << pdfVars, footVars, orchVars, docVars >>

\* after the loop: the last paragraph is handled and the list returned
HandleLast ==
    /\ ocr_pc = "loop"
    /\ line_num = Len(lines)
    /\ paragraphs' = SavedParagraphs(paragraphs, current_para, current_num,
                                     seen_numbers, page_num, Len(lines))
    /\ seen_numbers' = SavedSeen(current_para, current_num, seen_numbers)
    /\ ocr_pc' = "done"
    /\ UNCHANGED << lines, page_num, line_num, current_para, current_num >>
    /\ UNCHANGED << pdfVars, footVars, orchVars, docVars >>

ParaNext == NumberLine \/ ContinuationLine \/ HandleLast

\* a run of extract_paragraphs_ocr on the lines of one page
InitPara == ParaInit /\ PdfIdle /\ OrchIdle /\ DocIdle /\ FootIdle

SpecPara == InitPara /\ [][ParaNext]_vars

\* ------------------------------------------------------------------------
\* The document and the Page Processor
\* ------------------------------------------------------------------------

\* What the recognizers find on a page: the number of paragraphs on its
\* image and of footnotes in its text layer; fails = TRUE when reading the
\* text layer or recognizing its footnotes raises; ocr tells whether the OCR
\* of the image delivers lines ("lines"), finds none on a blank image
\* ("blank") or raises ("raises").
PageKinds ==
    { [paras |-> 0, foots |-> 0, fails |-> FALSE, ocr |-> "lines"],
      [paras |-> 2, foots |-> 0, fails |-> FALSE, ocr |-> "lines"],
      [paras |-> 0, foots |-> 1, fails |-> FALSE, ocr |-> "lines"],
      [paras |-> 2, foots |-> 2, fails |-> FALSE, ocr |-> "lines"],
      [paras |-> 0, foots |-> 0, fails |-> TRUE, ocr |-> "lines"],
      [paras |-> 0, foots |-> 1, fails |-> FALSE, ocr |-> "blank"],
      [paras |-> 2, foots |-> 2, fails |-> FALSE, ocr |-> "raises"] }

\* the stripped non-empty lines of the text pytesseract reads off the image
\* of a page
PageLines(page) ==
    IF page.ocr = "blank" THEN << >>
    ELSE IF page.paras = 0 THEN << LineCont >>
    ELSE << LineValid1, LineNoSpace2 >>

\* an OCR step whose exception is not turned into an empty list
OcrLinesAnyway(page) == PageLines(page)

\* extract_text_with_ocr: the lines, or [] when any step of the OCR raises
extract_text_with_ocr(page) ==
    IF page.ocr = "raises" THEN << >> ELSE PageLines(page)

\* the k-th paragraph of a page, as extract_paragraphs_ocr builds it from the
\* lines LineValid1, LineNoSpace2 of page index pg
PageParagraph(pg, k) ==
    IF k = 1
    THEN LegalParagraph(<< "1" >>, Strip(From(LineValid1, 3)), pg, 1, 1)
    ELSE LegalParagraph(<< "2" >>, Strip(From(LineNoSpace2, 2)), pg, 1, 2)

\* 'ICC-01 para. 4' and 'T-12, p. 3': the content of the footnotes of a page
FootnoteContent1 ==
    << "I", "C", "C", "-", "0", "1", " ", "p", "a", "r", "a", ".", " ", "4" >>

FootnoteContent2 ==
    << "T", "-", "1", "2", ",", " ", "p", ".", " ", "3" >>

\* the Footnote dataclass; confidence is counted in tenths
Footnote(number, content, page, confidence, detection_method) ==
    [number                |-> number,
     content               |-> content,
     page                  |-> page,
     confidence            |-> confidence,
     detection_method      |-> detection_method,
     referenced_paragraphs |-> << >>]

\* the k-th footnote of a page, as extract_footnotes_pymupdf builds it
PageFootnote(pg, k) ==
    IF k = 1
    THEN Footnote(<< "1" >>, FootnoteContent1, pg + 1, 3, "pymupdf")
    ELSE Footnote(<< "2" >>, FootnoteContent2, pg + 1, 4, "pymupdf")

\* an exception raised, and a value returned
Raised(e) == [raised |-> TRUE, error |-> e]

Returned(v) == [raised |-> FALSE, value |-> v]

\* process_page(page_num) on a chunker whose field self.doc is doc ("None" or
\* "Document"), over the document pdf: extract_footnotes_pymupdf starts
\* with self.doc[page_num]; nothing in process_page catches what it raises;
\* when the OCR delivers no lines the paragraphs are not looked for.
process_page(doc, pdf, pg) ==
    IF doc = "None" THEN Raised("TypeError")
    ELSE IF pg + 1 > Len(pdf) THEN Raised("IndexError")
    ELSE IF pdf[pg + 1].fails THEN Raised("Exception")
    ELSE IF Len(extract_text_with_ocr(pdf[pg + 1])) = 0
    THEN Returned(<< << >>,
                     [k \in 1..pdf[pg + 1].foots |-> PageFootnote(pg, k)] >>)
    ELSE Returned(<< [k \in 1..pdf[pg + 1].paras |-> PageParagraph(pg, k)],
                     [k \in 1..pdf[pg + 1].foots |-> PageFootnote(pg, k)] >>)

\* ------------------------------------------------------------------------
\* Distributed orchestrator: DatabricksHybridChunker
\* ------------------------------------------------------------------------

\* most pages of a document
MaxPdfPages == 4

\* largest skip_first_pages
MaxSkip == 2

\* largest pages_per_partition
MaxPerPartition == 3

\* a page count that reports a file it cannot open as -1
MetadataMinusOne(readable, pdf) == IF readable THEN Len(pdf) ELSE 0 - 1

\* _get_pdf_metadata: the page count, or 0 when opening the file raises
_get_pdf_metadata(readable, pdf) == IF readable THEN Len(pdf) ELSE 0

\* list(range(a, b))
Range(a, b) == [i \in 1..(IF b > a THEN b - a ELSE 0) |-> a + i - 1]

\* s[i:j] of Python, for 0 <= i <= j
Slice(s, i, j) == SubSeq(s, i + 1, Min2(j, Len(s)))

\* partitions cut one page short: pages[i:i + per - 1]
PartitionsOffByOne(pages, per) ==
    [n \in 1..((Len(pages) + per - 1) \div per) |->
        Slice(pages, (n - 1) * per, (n - 1) * per + per - 1)]

\* [pages[i:i + per] for i in range(0, len(pages), per)]
Partitions(pages, per) ==
    [n \in 1..((Len(pages) + per - 1) \div per) |->
        Slice(pages, (n - 1) * per, (n - 1) * per + per)]

\* page_partitions for a document of total pages
PagePartitions(total, skip, per) == Partitions(Range(skip + 1, total + 1), per)

\* the entry of a page whose processing raised e
FailureEntry(pg, e) ==
    [page |-> pg, paragraphs |-> << >>, footnotes |-> << >>,
     processing_time |-> 0, success |-> FALSE, error |-> e]

\* the entry of a page whose result is falsy
NoResultEntry(pg) ==
    [page |-> pg, paragraphs |-> << >>, footnotes |-> << >>,
     processing_time |-> 0, success |-> FALSE]

\* an inner handler that records the failure without its error
PageEntryWithoutError(pg, outcome) == NoResultEntry(pg)

\* The entry appended for one page inside the inner try: process_page
\* returns a 2-tuple, which is truthy, and the tuple has no method get, so
\* building page_data raises AttributeError into the inner handler.
PageEntry(pg, outcome) ==
    IF outcome.raised THEN FailureEntry(pg, outcome.error)
    ELSE IF Len(outcome.value) > 0 THEN FailureEntry(pg, "AttributeError")
    ELSE NoResultEntry(pg)

\* the entries the outer handler appends: one for every page of the partition
RECURSIVE PartitionFailureEntries(_, _)
PartitionFailureEntries(page_range, e) ==
    IF Len(page_range) = 0 THEN << >>
    ELSE << FailureEntry(Head(page_range), e) >>
         \o PartitionFailureEntries(Tail(page_range), e)

\* a task as parallelize creates it, before _process_page_partition starts
NewTask == [pc |-> "ctor", doc |-> "None", i |-> 0, results |-> << >>]

\* flatMap(...).collect(): the lists of the partitions, in partition order
RECURSIVE Collected(_, _)
Collected(ts, n) ==
    IF n = 0 THEN << >> ELSE Collected(ts, n - 1) \o ts[n].results

\* page_result.get('success', False)
Success(entry) == IF "success" \in DOMAIN entry THEN entry.success ELSE FALSE

\* the records of an entry with the entry's page written into each
Annotated(records, pg) == [k \in 1..Len(records) |-> [records[k] EXCEPT !.page = pg]]

\* an aggregation loop that does not count the failed entries
RECURSIVE AggregateSkipsFailures(_, _)
AggregateSkipsFailures(rs, acc) ==
    IF Len(rs) = 0 THEN acc
    ELSE AggregateSkipsFailures(Tail(rs),
            IF Success(Head(rs))
            THEN [acc EXCEPT !.successful_pages = @ + 1]
            ELSE acc)

\* the aggregation loop over all_results and the dictionary returned; the
\* elapsed and average times, read from the clock, are left out
RECURSIVE Aggregate(_, _)
Aggregate(rs, acc) ==
    IF Len(rs) = 0 THEN acc
    ELSE LET r == Head(rs)
         IN  Aggregate(Tail(rs),
                IF Success(r)
                THEN [acc EXCEPT
                        !.successful_pages = @ + 1,
                        !.paragraphs = @ \o Annotated(r.paragraphs, r.page),
                        !.footnotes = @ \o Annotated(r.footnotes, r.page)]
                ELSE [acc EXCEPT !.failed_pages = @ + 1])

AggregatedResult(rs) ==
    LET acc == Aggregate(rs, [paragraphs |-> << >>, footnotes |-> << >>,
                              successful_pages |-> 0, failed_pages |-> 0])
    IN  [paragraphs |-> acc.paragraphs,
         footnotes  |-> acc.footnotes,
         statistics |->
            [total_pages_processed |-> Len(rs),
             successful_pages      |-> acc.successful_pages,
             failed_pages          |-> acc.failed_pages,
             total_paragraphs      |-> Len(acc.paragraphs),
             total_footnotes       |-> Len(acc.footnotes)]]

\* documents of n pages of one kind
UniformPdfs(n) == {[i \in 1..n |-> k] : k \in PageKinds}

OrchInit ==
    /\ pdf_readable \in BOOLEAN
    /\ pdf_pages \in UNION {UniformPdfs(n) : n \in 0..MaxPdfPages}
    /\ config_skip \in 0..MaxSkip
    /\ config_per \in 1..MaxPerPartition
    /\ total_pages = 0
    /\ page_partitions = << >>
    /\ tasks = << >>
    /\ all_results = << >>
    /\ result = None
    /\ orch_pc = "start"

\* process_document_distributed when the page count is 0: RuntimeError
RaiseNoPages ==
    /\ orch_pc = "start"
    /\ _get_pdf_metadata(pdf_readable, pdf_pages) = 0
    /\ total_pages' = _get_pdf_metadata(pdf_readable, pdf_pages)
    /\ orch_pc' = "raised"
    /\ UNCHANGED << config_skip, config_per, page_partitions, tasks,
                    all_results, result >>
    /\ UNCHANGED << pdfVars, footVars, paraVars, docVars >>

\* process_document_distributed up to parallelize and flatMap
Dispatch ==
    /\ orch_pc = "start"
    /\ _get_pdf_metadata(pdf_readable, pdf_pages) # 0
    /\ total_pages' = _get_pdf_metadata(pdf_readable, pdf_pages)
    /\ page_partitions' = PagePartitions(total_pages', config_skip, config_per)
    /\ tasks' = [n \in 1..Len(page_partitions') |-> NewTask]
    /\ orch_pc' = "running"
    /\ UNCHANGED << config_skip, config_per, all_results, result >>
    /\ UNCHANGED << pdfVars, footVars, paraVars, docVars >>

\* parallelize(page_partitions, 0): with no partition at all the number of
\* slices is 0, which the parallel-execution capability may refuse
ParallelizeRaises ==
    /\ orch_pc = "running"
    /\ Len(page_partitions) = 0
    /\ orch_pc' = "raised"
    /\ UNCHANGED << config_skip, config_per, total_pages, page_partitions, tasks,
                    all_results, result >>
    /\ UNCHANGED << pdfVars, footVars, paraVars, docVars >>

\* _process_page_partition of partition n: the chunker is constructed
Construct(n) ==
    /\ orch_pc = "running"
    /\ tasks[n].pc = "ctor"
    /\ tasks' = [tasks EXCEPT ![n].pc = "loop", ![n].doc = "None"]
    /\ UNCHANGED << config_skip, config_per, total_pages, page_partitions,
                    all_results, result, orch_pc >>
    /\ UNCHANGED << pdfVars, footVars, paraVars, docVars >>

\* one iteration of the loop over page_range, its inner handler included
ProcessPage(n) ==
    /\ orch_pc = "running"
    /\ tasks[n].pc = "loop"
    /\ tasks[n].i < Len(page_partitions[n])
    /\ LET pg == page_partitions[n][tasks[n].i + 1]
       IN  tasks' = [tasks EXCEPT
              ![n].results =
                  Append(@, PageEntry(pg, process_page(tasks[n].doc, pdf_pages, pg))),
              ![n].i = @ + 1]
    /\ UNCHANGED << config_skip, config_per, total_pages, page_partitions,
                    all_results, result, orch_pc >>
    /\ UNCHANGED << pdfVars, footVars, paraVars, docVars >>

\* the loop is over: chunker.close() is reached
EndLoop(n) ==
    /\ orch_pc = "running"
    /\ tasks[n].pc = "loop"
    /\ tasks[n].i = Len(page_partitions[n])
    /\ tasks' = [tasks EXCEPT ![n].pc = "close"]
    /\ UNCHANGED << config_skip, config_per, total_pages, page_partitions,
                    all_results, result, orch_pc >>
    /\ UNCHANGED << pdfVars, footVars, paraVars, docVars >>

\* chunker.close() returns and the partition returns its results
Close(n) ==
    /\ orch_pc = "running"
    /\ tasks[n].pc = "close"
    /\ tasks' = [tasks EXCEPT ![n].pc = "done"]
    /\ UNCHANGED << config_skip, config_per, total_pages, page_partitions,
                    all_results, result, orch_pc >>
    /\ UNCHANGED << pdfVars, footVars, paraVars, docVars >>

\* An exception escapes the statements of the outer try that the inner try
\* does not cover: the construction of the chunker, or a statement of the
\* inner handler (its print, its append) while it handles the exception of
\* the page the loop is at. chunker.close() does nothing on a chunker whose
\* doc is None. The outer handler appends a failure entry for every page of
\* the partition to the results the loop has made so far.
PartitionFails(n) ==
    /\ orch_pc = "running"
    /\ \/ tasks[n].pc = "ctor"
       \/ /\ tasks[n].pc = "loop"
          /\ tasks[n].i < Len(page_partitions[n])
          /\ process_page(tasks[n].doc, pdf_pages,
                          page_partitions[n][tasks[n].i + 1]).raised
    /\ tasks' = [tasks EXCEPT
          ![n].results = @ \o PartitionFailureEntries(page_partitions[n], "Exception"),
          ![n].pc = "failed"]
    /\ UNCHANGED << config_skip, config_per, total_pages, page_partitions,
                    all_results, result, orch_pc >>
    /\ UNCHANGED << pdfVars, footVars, paraVars, docVars >>

\* collect(), the aggregation and the return
CollectAndReturn ==
    /\ orch_pc = "running"
    /\ \A n \in 1..Len(tasks) : tasks[n].pc \in {"done", "failed"}
    /\ all_results' = Collected(tasks, Len(tasks))
    /\ result' = AggregatedResult(all_results')
    /\ orch_pc' = "returned"
    /\ UNCHANGED << config_skip, config_per, total_pages, page_partitions, tasks >>
    /\ UNCHANGED << pdfVars, footVars, paraVars, docVars >>

OrchNext ==
    \/ RaiseNoPages
    \/ Dispatch
    \/ ParallelizeRaises
    \/ \E n \in 1..Len(tasks) : Construct(n)
    \/ \E n \in 1..Len(tasks) : ProcessPage(n)
    \/ \E n \in 1..Len(tasks) : EndLoop(n)
    \/ \E n \in 1..Len(tasks) : Close(n)
    \/ \E n \in 1..Len(tasks) : PartitionFails(n)
    \/ CollectAndReturn

\* a run of process_document_distributed
Init == OrchInit /\ ParaIdle /\ DocIdle /\ FootIdle

Spec == Init /\ [][OrchNext]_vars

\* ------------------------------------------------------------------------
\* Sequential run: HybridPyMuPDFOCRChunker.process_document
\* ------------------------------------------------------------------------

\* most pages of a document given to the sequential run
MaxDocPages == 3

RECURSIVE PdfsOfLen(_)
PdfsOfLen(n) ==
    IF n = 0 THEN {<< >>}
    ELSE {Append(d, k) : d \in PdfsOfLen(n - 1), k \in PageKinds}

DocInit ==
    /\ pdf_readable \in BOOLEAN
    /\ pdf_pages \in UNION {PdfsOfLen(n) : n \in 0..MaxDocPages}
    /\ config_skip \in 0..MaxSkip
    /\ self_doc = "None"
    /\ loop_page = 0
    /\ all_paragraphs = << >>
    /\ all_footnotes = << >>
    /\ self_paragraphs = << >>
    /\ self_footnotes = << >>
    /\ paragraphs_by_page = << >>
    /\ page_keys = << >>
    /\ key_idx = 0
    /\ page_paragraphs = << >>
    /\ page_footnotes = << >>
    /\ para_idx = 0
    /\ foot_idx = 0
    /\ chunks = << >>
    /\ chunk_id = 1
    /\ doc_pc = "start"

\* the part of the orchestrator's state the sequential run does not use
OrchUnused ==
    /\ config_per = 1
    /\ total_pages = 0
    /\ page_partitions = << >>
    /\ tasks = << >>
    /\ all_results = << >>
    /\ result = None
    /\ orch_pc = "idle"

orchRest ==
    << config_per, total_pages, page_partitions, tasks, all_results, result,
       orch_pc >>

\* process_document: open_document succeeds and the page loop starts at
\* skip_first_pages
OpenDocument ==
    /\ doc_pc = "start"
    /\ pdf_readable
    /\ self_doc' = "Document"
    /\ loop_page' = config_skip
    /\ doc_pc' = "pages"
    /\ UNCHANGED << all_paragraphs, all_footnotes, self_paragraphs, self_footnotes,
                    chunkVars >>
    /\ UNCHANGED << pdfVars, footVars, config_skip, orchRest, paraVars >>

\* process_document: fitz.open raises in open_document
OpenDocumentRaises ==
    /\ doc_pc = "start"
    /\ ~pdf_readable
    /\ doc_pc' = "raised"
    /\ UNCHANGED << self_doc, loop_page, all_paragraphs, all_footnotes, self_paragraphs,
                    self_footnotes, chunkVars >>
    /\ UNCHANGED << pdfVars, footVars, config_skip, orchRest, paraVars >>

\* one iteration of the page loop in which process_page returns
DocumentPage ==
    /\ doc_pc = "pages"
    /\ loop_page < Len(pdf_pages)
    /\ LET outcome == process_page(self_doc, pdf_pages, loop_page)
       IN  /\ ~outcome.raised
           /\ all_paragraphs' = all_paragraphs \o outcome.value[1]
           /\ all_footnotes' = all_footnotes \o outcome.value[2]
    /\ loop_page' = loop_page + 1
    /\ UNCHANGED << self_doc, self_paragraphs, self_footnotes, doc_pc, chunkVars >>
    /\ UNCHANGED << pdfVars, footVars, config_skip, orchRest, paraVars >>

\* one iteration of the page loop in which process_page raises: nothing in
\* process_page or process_document catches it
DocumentPageRaises ==
    /\ doc_pc = "pages"
    /\ loop_page < Len(pdf_pages)
    /\ process_page(self_doc, pdf_pages, loop_page).raised
    /\ doc_pc' = "raised"
    /\ UNCHANGED << self_doc, loop_page, all_paragraphs, all_footnotes, self_paragraphs,
                    self_footnotes, chunkVars >>
    /\ UNCHANGED << pdfVars, footVars, config_skip, orchRest, paraVars >>

\* the page loop is over: the collections are stored and returned
FinishDocument ==
    /\ doc_pc = "pages"
    /\ loop_page >= Len(pdf_pages)
    /\ self_paragraphs' = all_paragraphs
    /\ self_footnotes' = all_footnotes
    /\ doc_pc' = "processed"
    /\ UNCHANGED << self_doc, loop_page, all_paragraphs, all_footnotes, chunkVars >>
    /\ UNCHANGED << pdfVars, footVars, config_skip, orchRest, paraVars >>

\* ------------------------------------------------------------------------
\* Chunk Assembler: HybridPyMuPDFOCRChunker.create_semantic_chunks
\* ------------------------------------------------------------------------

\* str(n) for n >= 0
RECURSIVE Decimal(_)
Decimal(n) ==
    IF n < 10 THEN << CHOOSE c \in Digits : DigitValue(c) = n >>
    ELSE Decimal(n \div 10) \o Decimal(n % 10)

\* f"para_{chunk_id}" and f"footnote_{chunk_id}"
ParaChunkId(n) == << "p", "a", "r", "a", "_" >> \o Decimal(n)

FootnoteChunkId(n) ==
    << "f", "o", "o", "t", "n", "o", "t", "e", "_" >> \o Decimal(n)

\* the records of rs whose page is pg, in the order of rs
RECURSIVE OnPage(_, _)
OnPage(rs, pg) ==
    IF Len(rs) = 0 THEN << >>
    ELSE IF Head(rs).page = pg THEN << Head(rs) >> \o OnPage(Tail(rs), pg)
    ELSE OnPage(Tail(rs), pg)

\* a grouping that keeps only the page of the first paragraph
GroupFirstPageOnly(ps) ==
    [pg \in {ps[k].page : k \in 1..Min2(1, Len(ps))} |-> OnPage(ps, pg)]

\* paragraphs_by_page after the grouping loop: a list for every page that
\* has a paragraph
GroupByPage(ps) ==
    [pg \in {ps[k].page : k \in 1..Len(ps)} |-> OnPage(ps, pg)]

\* the keys in descending order
RECURSIVE SortedDescending(_)
SortedDescending(S) ==
    IF S = {} THEN << >>
    ELSE LET greatest == CHOOSE x \in S : \A y \in S : y <= x
         IN  << greatest >> \o SortedDescending(S \ {greatest})

\* sorted(keys)
RECURSIVE Sorted(_)
Sorted(S) ==
    IF S = {} THEN << >>
    ELSE LET least == CHOOSE x \in S : \A y \in S : x <= y
         IN  << least >> \o Sorted(S \ {least})

\* the chunk of a paragraph
ParagraphChunk(para, n) ==
    [chunk_id          |-> ParaChunkId(n),
     content           |-> para.content,
     chunk_type        |-> "paragraph",
     page_range        |-> << para.page, para.page >>,
     paragraph_numbers |-> << para.number >>,
     footnote_numbers  |-> para.footnote_references,
     token_count       |-> para.token_count,
     metadata          |-> [extraction_method |-> para.extraction_method,
                            confidence        |-> para.confidence,
                            section_type      |-> para.section_type]]

\* a footnote chunk whose range runs on to the next page
FootnoteChunkTwoPages(footnote, n) ==
    [chunk_id          |-> FootnoteChunkId(n),
     content           |-> footnote.content,
     chunk_type        |-> "footnote",
     page_range        |-> << footnote.page, footnote.page + 1 >>,
     paragraph_numbers |-> << >>,
     footnote_numbers  |-> << footnote.number >>,
     token_count       |-> TokenCount(footnote.content),
     metadata          |-> [detection_method |-> footnote.detection_method,
                            confidence       |-> footnote.confidence]]

\* the chunk of a footnote
FootnoteChunk(footnote, n) ==
    [chunk_id          |-> FootnoteChunkId(n),
     content           |-> footnote.content,
     chunk_type        |-> "footnote",
     page_range        |-> << footnote.page, footnote.page >>,
     paragraph_numbers |-> << >>,
     footnote_numbers  |-> << footnote.number >>,
     token_count       |-> TokenCount(footnote.content),
     metadata          |-> [detection_method |-> footnote.detection_method,
                            confidence       |-> footnote.confidence]]

\* a counter that is not advanced
NextChunkIdStuck(n) == n

\* the counter after a chunk was appended
NextChunkId(n) == n + 1

\* the paragraphs are grouped by page and the pages sorted
GroupParagraphs ==
    /\ doc_pc = "processed"
    /\ chunks' = << >>
    /\ chunk_id' = 1
    /\ paragraphs_by_page' = GroupByPage(self_paragraphs)
    /\ page_keys' = Sorted(DOMAIN paragraphs_by_page')
    /\ key_idx' = 0
    /\ doc_pc' = "chunking"
    /\ UNCHANGED << page_paragraphs, page_footnotes, para_idx, foot_idx >>
    /\ UNCHANGED << self_doc, loop_page, all_paragraphs, all_footnotes, self_paragraphs,
                    self_footnotes >>
    /\ UNCHANGED << pdfVars, footVars, config_skip, orchRest, paraVars >>

\* the chunks of the current page are all made
PageDone ==
    /\ para_idx = Len(page_paragraphs)
    /\ foot_idx = Len(page_footnotes)

\* the loop over the sorted pages takes the next page
NextChunkPage ==
    /\ doc_pc = "chunking"
    /\ PageDone
    /\ key_idx < Len(page_keys)
    /\ key_idx' = key_idx + 1
    /\ page_paragraphs' = paragraphs_by_page[page_keys[key_idx']]
    /\ page_footnotes' = OnPage(self_footnotes, page_keys[key_idx'])
    /\ para_idx' = 0
    /\ foot_idx' = 0
    /\ UNCHANGED << chunks, chunk_id, paragraphs_by_page, page_keys, doc_pc >>
    /\ UNCHANGED << self_doc, loop_page, all_paragraphs, all_footnotes, self_paragraphs,
                    self_footnotes >>
    /\ UNCHANGED << pdfVars, footVars, config_skip, orchRest, paraVars >>

\* one iteration of the loop over the paragraphs of the page
AddParagraphChunk ==
    /\ doc_pc = "chunking"
    /\ para_idx < Len(page_paragraphs)
    /\ chunks' = Append(chunks, ParagraphChunk(page_paragraphs[para_idx + 1], chunk_id))
    /\ chunk_id' = NextChunkId(chunk_id)
    /\ para_idx' = para_idx + 1
    /\ UNCHANGED << paragraphs_by_page, page_keys, key_idx, page_paragraphs,
                    page_footnotes, foot_idx, doc_pc >>
    /\ UNCHANGED << self_doc, loop_page, all_paragraphs, all_footnotes, self_paragraphs,
                    self_footnotes >>
    /\ UNCHANGED << pdfVars, footVars, config_skip, orchRest, paraVars >>

\* one iteration of the loop over the footnotes of the page
AddFootnoteChunk ==
    /\ doc_pc = "chunking"
    /\ para_idx = Len(page_paragraphs)
    /\ foot_idx < Len(page_footnotes)
    /\ chunks' = Append(chunks, FootnoteChunk(page_footnotes[foot_idx + 1], chunk_id))
    /\ chunk_id' = NextChunkId(chunk_id)
    /\ foot_idx' = foot_idx + 1
    /\ UNCHANGED << paragraphs_by_page, page_keys, key_idx, page_paragraphs,
                    page_footnotes, para_idx, doc_pc >>
    /\ UNCHANGED << self_doc, loop_page, all_paragraphs, all_footnotes, self_paragraphs,
                    self_footnotes >>
    /\ UNCHANGED << pdfVars, footVars, config_skip, orchRest, paraVars >>

\* the loop over the pages is over: chunks is returned
ReturnChunks ==
    /\ doc_pc = "chunking"
    /\ PageDone
    /\ key_idx = Len(page_keys)
    /\ doc_pc' = "done"
    /\ UNCHANGED chunkVars
    /\ UNCHANGED << self_doc, loop_page, all_paragraphs, all_footnotes, self_paragraphs,
                    self_footnotes >>
    /\ UNCHANGED << pdfVars, footVars, config_skip, orchRest, paraVars >>

DocNext ==
    \/ OpenDocument
    \/ OpenDocumentRaises
    \/ DocumentPage
    \/ DocumentPageRaises
    \/ FinishDocument
    \/ GroupParagraphs
    \/ NextChunkPage
    \/ AddParagraphChunk
    \/ AddFootnoteChunk
    \/ ReturnChunks

\* a run of process_document followed by create_semantic_chunks
InitDoc == DocInit /\ OrchUnused /\ ParaIdle /\ FootIdle

SpecDoc == InitDoc /\ [][DocNext]_vars

\* ------------------------------------------------------------------------
\* Properties of the Paragraph Recognizer
\* ------------------------------------------------------------------------

\* the 1-based positions of the lines that match a number pattern
NumberLines == {i \in 1..Len(lines) : ParaMatch(lines[i]) # None}

\* C1: at every point of the scan of one page, and in the list returned, the
\* numbers of the paragraphs emitted for the page are pairwise distinct.
C1_DistinctParagraphNumbers ==
    \A i, j \in 1..Len(paragraphs) :
        paragraphs[i].number = paragraphs[j].number => i = j

\* C1 witness: a scan has returned at least two paragraphs for a page on
\* which a later line repeats a number that was already emitted.
C1_Witness ==
    /\ ocr_pc = "done"
    /\ Len(paragraphs) >= 2
    /\ \E j \in NumberLines : \E k \in 1..Len(paragraphs) :
          /\ paragraphs[k].number = ParaMatch(lines[j]).group1
          /\ paragraphs[k].end_line < j

\* ------------------------------------------------------------------------
\* Properties of the distributed orchestrator
\* ------------------------------------------------------------------------

\* the partitions have been built
Dispatched == orch_pc \in {"running", "returned"}

\* the concatenation of the first n sequences of ss
RECURSIVE Flatten(_, _)
Flatten(ss, n) == IF n = 0 THEN << >> ELSE Flatten(ss, n - 1) \o ss[n]

\* the positions of the entries of rs for page pg
EntriesOf(rs, pg) == {k \in 1..Len(rs) : rs[k].page = pg}

\* the pages the run has to cover
PagesToCover == (config_skip + 1)..total_pages

\* C2: when total_pages > skip_first_pages, the partitions are non-empty runs
\* of consecutive pages that, put end to end in order, are exactly the pages
\* skip_first_pages+1 .. total_pages (so they are disjoint and ascending);
\* every partition but the last has pages_per_partition pages, the last has
\* at most that many; and 106 pages with skip 6 and size 50 give the two
\* partitions 7-56 and 57-106, 100 pages in all.
C2_PartitionsCoverPages ==
    /\ (Dispatched /\ total_pages > config_skip) =>
          /\ Len(page_partitions) >= 1
          /\ Flatten(page_partitions, Len(page_partitions))
                = Range(config_skip + 1, total_pages + 1)
          /\ \A n \in 1..Len(page_partitions) :
                /\ Len(page_partitions[n]) >= 1
                /\ Len(page_partitions[n]) <= config_per
                /\ n < Len(page_partitions) => Len(page_partitions[n]) = config_per
                /\ \A j \in 1..(Len(page_partitions[n]) - 1) :
                      page_partitions[n][j + 1] = page_partitions[n][j] + 1
    /\ PagePartitions(106, 6, 50) = << Range(7, 57), Range(57, 107) >>
    /\ Len(Flatten(PagePartitions(106, 6, 50), 2)) = 100

\* C2 witness: a run with skipped pages whose partitions are several, the
\* last one shorter than pages_per_partition.
C2_Witness ==
    /\ Dispatched
    /\ config_skip >= 1
    /\ Len(page_partitions) >= 2
    /\ Len(page_partitions[Len(page_partitions)]) < config_per

\* C3: the list a finished partition returns holds exactly one entry for each
\* of its pages, and the collected results hold exactly one entry for each
\* page of skip_first_pages+1 .. total_pages.
C3_EachPageExactlyOnce ==
    /\ \A n \in 1..Len(tasks) :
          tasks[n].pc \in {"done", "failed"} =>
             \A j \in 1..Len(page_partitions[n]) :
                Cardinality(EntriesOf(tasks[n].results, page_partitions[n][j])) = 1
    /\ orch_pc = "returned" =>
          \A pg \in PagesToCover : Cardinality(EntriesOf(all_results, pg)) = 1

\* the pages of partition n that process_page has been called on
Processed(n) == 1..tasks[n].i

\* C4: every page whose processing raised has, at its place in the list of
\* its partition, an entry with success = false, the error and no paragraphs
\* or footnotes; a partition whose loop has ended called process_page on all
\* of its pages, whichever of them raised; the run is never aborted once
\* partitions exist, and the result returned has the failed pages' entries.
C4_PageFailureIsContained ==
    /\ \A n \in 1..Len(tasks) : \A j \in Processed(n) :
          LET pg      == page_partitions[n][j]
              outcome == process_page(tasks[n].doc, pdf_pages, pg)
              entry   == tasks[n].results[j]
          IN  outcome.raised =>
                 /\ entry.page = pg
                 /\ entry.success = FALSE
                 /\ "error" \in DOMAIN entry
                 /\ entry.error = outcome.error
                 /\ entry.paragraphs = << >>
                 /\ entry.footnotes = << >>
    /\ \A n \in 1..Len(tasks) :
          tasks[n].pc \in {"close", "done"} => tasks[n].i = Len(page_partitions[n])
    /\ orch_pc = "raised" => Len(tasks) = 0
    /\ orch_pc = "returned" =>
          /\ result # None
          /\ \A n \in 1..Len(tasks) : \A j \in Processed(n) :
                \E k \in EntriesOf(all_results, page_partitions[n][j]) :
                   all_results[k] = tasks[n].results[j]

\* C4 witness: a run of two partitions or more has returned, and in one
\* partition process_page raised on two pages or more.
C4_Witness ==
    /\ orch_pc = "returned"
    /\ Len(tasks) >= 2
    /\ \E n \in 1..Len(tasks) :
          /\ tasks[n].i >= 2
          /\ \A j \in Processed(n) :
                process_page(tasks[n].doc, pdf_pages, page_partitions[n][j]).raised

\* C5: in the collected results, every page number that the Page Processor
\* of an opened document answers with a (paragraphs, footnotes) pair has an
\* entry with success = true that carries exactly these paragraphs and
\* footnotes, and the aggregated collections hold them.
C5_ReturnedPagesSucceed ==
    orch_pc = "returned" =>
       \A n \in 1..Len(tasks) : \A j \in Processed(n) :
          LET pg      == page_partitions[n][j]
              outcome == process_page("Document", pdf_pages, pg)
          IN  ~outcome.raised =>
                 /\ \E k \in EntriesOf(all_results, pg) :
                       /\ Success(all_results[k])
                       /\ all_results[k].paragraphs = outcome.value[1]
                       /\ all_results[k].footnotes = outcome.value[2]
                 /\ \A r \in 1..Len(outcome.value[1]) :
                       \E m \in 1..Len(result.paragraphs) :
                          result.paragraphs[m] = outcome.value[1][r]
                 /\ \A r \in 1..Len(outcome.value[2]) :
                       \E m \in 1..Len(result.footnotes) :
                          result.footnotes[m] = outcome.value[2][r]

\* C6: when the file cannot be opened or has no pages, the run, once it has
\* left its start, has raised: no partition and no task was created, nothing
\* was collected and no result was returned.
C6_NoPagesIsFatal ==
    ((~pdf_readable \/ Len(pdf_pages) = 0) /\ orch_pc # "start") =>
       /\ orch_pc = "raised"
       /\ page_partitions = << >>
       /\ tasks = << >>
       /\ all_results = << >>
       /\ result = None

\* C6 witness: the run has raised on a file of several pages that cannot be
\* opened.
C6_Witness ==
    /\ orch_pc = "raised"
    /\ ~pdf_readable
    /\ Len(pdf_pages) >= 2

\* an entry with success = true carrying np paragraphs and nf footnotes
SuccessEntry(pg, np, nf) ==
    [page |-> pg,
     paragraphs |-> [k \in 1..np |-> PageParagraph(pg - 1, k)],
     footnotes |-> [k \in 1..nf |-> PageFootnote(pg - 1, k)],
     processing_time |-> 0, success |-> TRUE]

\* the entries a page can have
SampleEntries(pg) ==
    {FailureEntry(pg, "TypeError"), NoResultEntry(pg)}
    \cup {SuccessEntry(pg, np, nf) : np \in 0..1, nf \in 0..1}

\* collected results of one or two pages, successes and failures mixed
SampleResults ==
    {<< >>}
    \cup {<< e >> : e \in SampleEntries(1)}
    \cup {<< e, f >> : e \in SampleEntries(1), f \in SampleEntries(2)}
    \cup {<< f, e >> : e \in SampleEntries(1), f \in SampleEntries(2)}

\* the statistics of the result res agree with the collected entries rs
StatisticsConsistent(rs, res) ==
    LET st == res.statistics
    IN  /\ st.successful_pages + st.failed_pages = st.total_pages_processed
        /\ st.total_pages_processed = Len(rs)
        /\ st.failed_pages = Cardinality({k \in 1..Len(rs) : ~Success(rs[k])})
        /\ st.successful_pages = Cardinality({k \in 1..Len(rs) : Success(rs[k])})
        /\ st.total_paragraphs = Len(res.paragraphs)
        /\ st.total_footnotes = Len(res.footnotes)
        /\ \A k \in 1..Len(rs) :
              ~Success(rs[k]) =>
                 /\ \A m \in 1..Len(res.paragraphs) :
                       res.paragraphs[m].page # rs[k].page
                 /\ \A m \in 1..Len(res.footnotes) :
                       res.footnotes[m].page # rs[k].page

\* C7: in the result returned, successful_pages + failed_pages =
\* total_pages_processed = the number of collected entries, failed_pages is
\* the number of entries without success, total_paragraphs and
\* total_footnotes are the sizes of the two collections, and no record of
\* either collection comes from an entry counted as failed; the same holds of
\* the aggregation of collected results in which successes and failures mix.
C7_StatisticsAreConsistent ==
    orch_pc = "returned" =>
       /\ StatisticsConsistent(all_results, result)
       /\ \A rs \in SampleResults : StatisticsConsistent(rs, AggregatedResult(rs))

\* C7 witness: a result was returned for a run in which several pages
\* failed.
C7_Witness ==
    /\ orch_pc = "returned"
    /\ result.statistics.failed_pages >= 2
    /\ Len(tasks) >= 2

\* ------------------------------------------------------------------------
\* Properties of the Chunk Assembler
\* ------------------------------------------------------------------------

\* int(s) for a string of digits
RECURSIVE DecimalValue(_)
DecimalValue(s) ==
    IF Len(s) = 0 THEN 0
    ELSE 10 * DecimalValue(SubSeq(s, 1, Len(s) - 1)) + DigitValue(s[Len(s)])

\* the number written after the underscore of a chunk identifier
NumericSuffix(id) ==
    DecimalValue(From(id, CHOOSE i \in 1..Len(id) : id[i] = "_"))

\* the page of a chunk
ChunkPage(c) == c.page_range[1]

\* what a chunk takes from its record: its kind, page, number and content
ChunkSource(c) ==
    << c.chunk_type, ChunkPage(c),
       IF c.chunk_type = "paragraph" THEN c.paragraph_numbers ELSE c.footnote_numbers,
       c.content >>

\* what a record gives to its chunk
RecordSource(kind, r) == << kind, r.page, << r.number >>, r.content >>

\* the chunks of one kind on page pg, in the order of emission
ChunksOn(kind, pg) ==
    SelectSeq(chunks, LAMBDA c : c.chunk_type = kind /\ ChunkPage(c) = pg)

\* the sources of a sequence of chunks, and of a sequence of records
ChunkSources(cs) == [k \in 1..Len(cs) |-> ChunkSource(cs[k])]

RecordSources(kind, rs) == [k \in 1..Len(rs) |-> RecordSource(kind, rs[k])]

\* the pages of the records of the two collections
RecordPages ==
    {self_paragraphs[k].page : k \in 1..Len(self_paragraphs)}
        \cup {self_footnotes[k].page : k \in 1..Len(self_footnotes)}

\* C8: the chunks returned are as many as the paragraphs and footnotes
\* together, and on every page the paragraph chunks are the page's
\* paragraphs and the footnote chunks the page's footnotes, one chunk for
\* each record, also on a page that has footnotes and no paragraph.
C8_OneChunkPerRecord ==
    doc_pc = "done" =>
       /\ Len(chunks) = Len(self_paragraphs) + Len(self_footnotes)
       /\ \A pg \in RecordPages :
             /\ ChunkSources(ChunksOn("paragraph", pg))
                   = RecordSources("paragraph", OnPage(self_paragraphs, pg))
             /\ ChunkSources(ChunksOn("footnote", pg))
                   = RecordSources("footnote", OnPage(self_footnotes, pg))

\* C9: in the chunk sequence the page never decreases; within one page no
\* footnote chunk precedes a paragraph chunk; and once returned, the
\* paragraph chunks of a page follow the order of the page's paragraphs in
\* the paragraph collection and its footnote chunks the order of the page's
\* footnotes in the footnote collection.
C9_ChunkOrder ==
    /\ \A i, j \in 1..Len(chunks) :
          i < j =>
             /\ ChunkPage(chunks[i]) <= ChunkPage(chunks[j])
             /\ ChunkPage(chunks[i]) = ChunkPage(chunks[j]) =>
                   ~(chunks[i].chunk_type = "footnote"
                        /\ chunks[j].chunk_type = "paragraph")
    /\ doc_pc = "done" =>
          \A pg \in {ChunkPage(chunks[k]) : k \in 1..Len(chunks)} :
             /\ ChunkSources(ChunksOn("paragraph", pg))
                   = RecordSources("paragraph", OnPage(self_paragraphs, pg))
             /\ ChunkSources(ChunksOn("footnote", pg))
                   = RecordSources("footnote", OnPage(self_footnotes, pg))

\* C9 witness: chunks were returned for two pages or more, one of which has
\* two paragraphs and two footnotes.
C9_Witness ==
    /\ doc_pc = "done"
    /\ Cardinality({ChunkPage(chunks[k]) : k \in 1..Len(chunks)}) >= 2
    /\ \E pg \in RecordPages :
          /\ Len(ChunksOn("paragraph", pg)) >= 2
          /\ Len(ChunksOn("footnote", pg)) >= 2

\* C10: the k-th chunk emitted carries the number k after the underscore of
\* its identifier, whether it is a paragraph or a footnote chunk, and the
\* identifiers of the chunks are pairwise distinct.
C10_ChunkIdsCountUp ==
    /\ \A k \in 1..Len(chunks) : NumericSuffix(chunks[k].chunk_id) = k
    /\ \A i, j \in 1..Len(chunks) :
          chunks[i].chunk_id = chunks[j].chunk_id => i = j

\* C10 witness: chunks were returned, paragraph and footnote chunks among
\* them, and a footnote chunk is followed by a paragraph chunk.
C10_Witness ==
    /\ doc_pc = "done"
    /\ \E i, j \in 1..Len(chunks) :
          /\ i < j
          /\ chunks[i].chunk_type = "footnote"
          /\ chunks[j].chunk_type = "paragraph"

\* ------------------------------------------------------------------------
\* The Chunk Assembler on collections in any order
\* ------------------------------------------------------------------------

\* most paragraphs of a collection given to the Chunk Assembler
MaxChunkParagraphs == 3

\* most footnotes of a collection given to the Chunk Assembler
MaxChunkFootnotes == 2

\* the sequences of at most n pairwise distinct elements of S
DistinctSeqs(S, n) ==
    {s \in SeqsUpTo(S, n) : \A i, j \in 1..Len(s) : s[i] = s[j] => i = j}

\* the paragraphs and the footnotes of the pages of index 0 and 1
ParagraphRecords == {PageParagraph(pg, k) : pg \in 0..1, k \in 1..2}

FootnoteRecords == {PageFootnote(pg, k) : pg \in 0..1, k \in 1..2}

\* self.paragraphs and self.footnotes hold records in any order, as a caller
\* that collects pages in any order stores them
ChunkInit ==
    /\ self_paragraphs \in DistinctSeqs(ParagraphRecords, MaxChunkParagraphs)
    /\ self_footnotes \in DistinctSeqs(FootnoteRecords, MaxChunkFootnotes)
    /\ config_skip = 0
    /\ self_doc = "None"
    /\ loop_page = 0
    /\ all_paragraphs = << >>
    /\ all_footnotes = << >>
    /\ paragraphs_by_page = << >>
    /\ page_keys = << >>
    /\ key_idx = 0
    /\ page_paragraphs = << >>
    /\ page_footnotes = << >>
    /\ para_idx = 0
    /\ foot_idx = 0
    /\ chunks = << >>
    /\ chunk_id = 1
    /\ doc_pc = "processed"

ChunkNext ==
    \/ GroupParagraphs
    \/ NextChunkPage
    \/ AddParagraphChunk
    \/ AddFootnoteChunk
    \/ ReturnChunks

\* a run of create_semantic_chunks on stored collections
InitChunk == ChunkInit /\ PdfIdle /\ OrchUnused /\ ParaIdle /\ FootIdle

SpecChunk == InitChunk /\ [][ChunkNext]_vars

\* the counter after k chunks
RECURSIVE Advance(_, _)
Advance(n, k) == IF k = 0 THEN n ELSE Advance(NextChunkId(n), k - 1)

\* the paragraph loop and the footnote loop of one page, the counter at n
RECURSIVE ParagraphChunks(_, _)
ParagraphChunks(ps, n) ==
    IF Len(ps) = 0 THEN << >>
    ELSE << ParagraphChunk(Head(ps), n) >> \o ParagraphChunks(Tail(ps), NextChunkId(n))

RECURSIVE FootnoteChunks(_, _)
FootnoteChunks(fs, n) ==
    IF Len(fs) = 0 THEN << >>
    ELSE << FootnoteChunk(Head(fs), n) >> \o FootnoteChunks(Tail(fs), NextChunkId(n))

\* the loop over the sorted pages keys, the counter at n
RECURSIVE PageChunks(_, _, _, _)
PageChunks(keys, ps, fs, n) ==
    IF Len(keys) = 0 THEN << >>
    ELSE LET pp == GroupByPage(ps)[Head(keys)]
             pf == OnPage(fs, Head(keys))
         IN  ParagraphChunks(pp, n)
                \o FootnoteChunks(pf, Advance(n, Len(pp)))
                \o PageChunks(Tail(keys), ps, fs, Advance(n, Len(pp) + Len(pf)))

\* create_semantic_chunks as a function of self.paragraphs and self.footnotes
create_semantic_chunks(ps, fs) ==
    PageChunks(Sorted(DOMAIN GroupByPage(ps)), ps, fs, 1)

\* the collections that differ from rs only in how the records of different
\* pages are interleaved: the same records, each page's in the same order
Rearrangements(rs) ==
    {p \in {[i \in 1..Len(rs) |-> rs[f[i]]] : f \in Permutations(1..Len(rs))} :
        \A pg \in {rs[k].page : k \in 1..Len(rs)} : OnPage(p, pg) = OnPage(rs, pg)}

\* C11: the chunks a run returns are the chunks create_semantic_chunks makes
\* of the same collections, and of every pair of collections that differ
\* from them only in how records of different pages are interleaved:
\* chunk_id sequence and contents are identical.
C11_ChunksIgnoreInterleaving ==
    doc_pc = "done" =>
       \A ps \in Rearrangements(self_paragraphs) :
          \A fs \in Rearrangements(self_footnotes) :
             create_semantic_chunks(ps, fs) = chunks

\* C11 witness: chunks of both kinds were returned for collections whose
\* paragraphs and footnotes are not in page order.
C11_Witness ==
    /\ doc_pc = "done"
    /\ \E i, j \in 1..Len(self_paragraphs) :
          i < j /\ self_paragraphs[i].page > self_paragraphs[j].page
    /\ \E i, j \in 1..Len(self_footnotes) :
          i < j /\ self_footnotes[i].page > self_footnotes[j].page
    /\ \E k \in 1..Len(chunks) : chunks[k].chunk_type = "footnote"
    /\ Cardinality(Rearrangements(self_paragraphs)) >= 3

\* ------------------------------------------------------------------------
\* Regular expressions of the Footnote Recognizer
\* ------------------------------------------------------------------------

\* A pattern is a sequence of items. An item of kind "chars" matches between
\* lo and hi characters of the set (hi < 0: any number from lo on), "alt" one
\* of the strings of alts, "bol" the start of the string, "eol" its end and
\* "wb" a word boundary.
Chars(S, lo, hi) == [kind |-> "chars", set |-> S, lo |-> lo, hi |-> hi, alts |-> {}]

Lit(c) == Chars({c}, 1, 1)

Opt(c) == Chars({c}, 0, 1)

Plus(S) == Chars(S, 1, -1)

Alt(A) == [kind |-> "alt", set |-> {}, lo |-> 0, hi |-> 0, alts |-> A]

Bol == [kind |-> "bol", set |-> {}, lo |-> 0, hi |-> 0, alts |-> {}]

Eol == [kind |-> "eol", set |-> {}, lo |-> 0, hi |-> 0, alts |-> {}]

WordB == [kind |-> "wb", set |-> {}, lo |-> 0, hi |-> 0, alts |-> {}]

\* the items of a literal string
Lits(str) == [i \in 1..Len(str) |-> Lit(str[i])]

\* \s, among the characters of a line
SpaceChars == {" ", "\t"}

\* \w
WordChars ==
    {UpperCase[i] : i \in 1..26} \cup {LowerCase[i] : i \in 1..26}
        \cup Digits \cup {"_"}

\* c matches a character of S; ic is re.IGNORECASE
CharIn(c, S, ic) ==
    IF ic THEN \E d \in S : LowerChar(d) = LowerChar(c) ELSE c \in S

\* the string w stands in s at offset i
StandsAt(w, s, i, ic) ==
    /\ i + Len(w) <= Len(s)
    /\ \A j \in 1..Len(w) : CharIn(s[i + j], {w[j]}, ic)

\* the number of consecutive characters of S in s from offset i on
RECURSIVE RunOf(_, _, _, _)
RunOf(S, s, i, ic) ==
    IF i < Len(s) /\ CharIn(s[i + 1], S, ic) THEN 1 + RunOf(S, s, i + 1, ic) ELSE 0

\* \b at offset i of s
IsWordBoundary(s, i) ==
    (i > 0 /\ s[i] \in WordChars) # (i < Len(s) /\ s[i + 1] \in WordChars)

\* the counts a "chars" item can take at offset i
Counts(item, s, i, ic) ==
    LET run == RunOf(item.set, s, i, ic)
        top == IF item.hi < 0 THEN run ELSE Min2(item.hi, run)
    IN  item.lo..top

\* the offsets at which a match of the items k.. of p that starts at offset i
\* of s can end
RECURSIVE Ends(_, _, _, _, _)
Ends(p, k, s, i, ic) ==
    IF k > Len(p) THEN {i}
    ELSE LET item == p[k]
         IN  CASE item.kind = "chars" ->
                    UNION {Ends(p, k + 1, s, i + n, ic) : n \in Counts(item, s, i, ic)}
               [] item.kind = "alt" ->
                    UNION {Ends(p, k + 1, s, i + Len(w), ic) :
                              w \in {a \in item.alts : StandsAt(a, s, i, ic)}}
               [] item.kind = "bol" ->
                    IF i = 0 THEN Ends(p, k + 1, s, i, ic) ELSE {}
               [] item.kind = "eol" ->
                    IF i = Len(s) THEN Ends(p, k + 1, s, i, ic) ELSE {}
               [] item.kind = "wb" ->
                    IF IsWordBoundary(s, i) THEN Ends(p, k + 1, s, i, ic) ELSE {}

\* re.search(p, s) is not None
Search(p, s, ic) == \E i \in 0..Len(s) : Ends(p, 1, s, i, ic) # {}

\* The offsets after each item of the match re.match(p, s) returns, for a
\* pattern of "bol" and "chars" items: every quantifier is greedy and gives
\* back characters only when the rest of the pattern cannot match.
RECURSIVE GreedyPath(_, _, _, _)
GreedyPath(p, k, s, i) ==
    IF k > Len(p) THEN << >>
    ELSE IF p[k].kind = "bol" THEN << i >> \o GreedyPath(p, k + 1, s, i)
    ELSE LET n == Max({c \in Counts(p[k], s, i, FALSE) :
                          Ends(p, k + 1, s, i + c, FALSE) # {}})
         IN  << i + n >> \o GreedyPath(p, k + 1, s, i + n)

\* re.match(p, s) for a pattern ^(...)... whose group is its second item:
\* None, or the match with group(1) and end()
MatchGroup(p, s) ==
    IF Ends(p, 1, s, 0, FALSE) = {} THEN None
    ELSE LET path == GreedyPath(p, 1, s, 0)
         IN  [group1 |-> SubSeq(s, path[1] + 1, path[2]),
              end    |-> path[Len(path)]]

\* ------------------------------------------------------------------------
\* Configuration of the Footnote Recognizer (HYBRID_CHUNKING_CONFIG)
\* ------------------------------------------------------------------------

\* r'^(\d{1,3})\s+'
footnote_pattern == << Bol, Chars(Digits, 1, 3), Plus(SpaceChars) >>

\* the alternatives of the second date pattern
Months ==
    { << "J", "a", "n", "u", "a", "r", "y" >>,
      << "F", "e", "b", "r", "u", "a", "r", "y" >>,
      << "M", "a", "r", "c", "h" >>,
      << "A", "p", "r", "i", "l" >>,
      << "M", "a", "y" >>,
      << "J", "u", "n", "e" >>,
      << "J", "u", "l", "y" >>,
      << "A", "u", "g", "u", "s", "t" >>,
      << "S", "e", "p", "t", "e", "m", "b", "e", "r" >>,
      << "O", "c", "t", "o", "b", "e", "r" >>,
      << "N", "o", "v", "e", "m", "b", "e", "r" >>,
      << "D", "e", "c", "e", "m", "b", "e", "r" >> }

\* r'\b(19|20)\d{2}\b', the pattern with the names of the months, and
\* r'\b\d{1,2}\s+\w+\s+\d{4}\b'
date_patterns ==
    << << WordB, Alt({<< "1", "9" >>, << "2", "0" >>}), Chars(Digits, 2, 2), WordB >>,
       << WordB, Chars(Digits, 1, 2), Plus(SpaceChars), Alt(Months),
          Plus(SpaceChars), Chars(Digits, 4, 4), WordB >>,
       << WordB, Chars(Digits, 1, 2), Plus(SpaceChars), Plus(WordChars),
          Plus(SpaceChars), Chars(Digits, 4, 4), WordB >> >>

\* r'ICC-01/14-01/18-2784-Red\s+\d{2}-\d{2}-\d{4}\s+\d+/\d+\s+T',
\* r'No\.\s+ICC-01/14-01/18\s+\d+/\d+\s+\d{2}\s+\w+\s+\d{4}',
\* r'^\d+/\d+$' and r'^No\.\s+ICC-'
header_patterns ==
    << Lits(<< "I", "C", "C", "-", "0", "1", "/", "1", "4", "-", "0", "1", "/", "1",
               "8", "-", "2", "7", "8", "4", "-", "R", "e", "d" >>)
          \o << Plus(SpaceChars), Chars(Digits, 2, 2), Lit("-"), Chars(Digits, 2, 2),
                Lit("-"), Chars(Digits, 4, 4), Plus(SpaceChars), Plus(Digits),
                Lit("/"), Plus(Digits), Plus(SpaceChars), Lit("T") >>,
       << Lit("N"), Lit("o"), Lit("."), Plus(SpaceChars) >>
          \o Lits(<< "I", "C", "C", "-", "0", "1", "/", "1", "4", "-", "0", "1", "/", "1",
               "8" >>)
          \o << Plus(SpaceChars), Plus(Digits), Lit("/"), Plus(Digits),
                Plus(SpaceChars), Chars(Digits, 2, 2), Plus(SpaceChars),
                Plus(WordChars), Plus(SpaceChars), Chars(Digits, 4, 4) >>,
       << Bol, Plus(Digits), Lit("/"), Plus(Digits), Eol >>,
       << Bol, Lit("N"), Lit("o"), Lit("."), Plus(SpaceChars),
          Lit("I"), Lit("C"), Lit("C"), Lit("-") >> >>

\* the citation patterns, in the order of _calculate_footnote_confidence
WitnessRef == << Lit("P"), Lit("-"), Plus(Digits), Lit(":") >>

TranscriptRef == << Lit("T"), Lit("-"), Plus(Digits) >>

DocumentRef == << Lit("C"), Lit("A"), Lit("R"), Lit("-") >>

CaseRef == << Lit("I"), Lit("C"), Lit("C"), Lit("-") >>

ParagraphRef ==
    << Lit("p"), Lit("a"), Lit("r"), Lit("a"), Opt("."), Plus(SpaceChars), Plus(Digits) >>

PageRef == << Lit("p"), Lit("."), Plus(SpaceChars), Plus(Digits) >>

LineRef ==
    << Lit("l"), Lit("i"), Lit("n"), Lit("e"), Opt("s"), Plus(SpaceChars), Plus(Digits) >>

ArticleRef ==
    Lits(<< "A", "r", "t", "i", "c", "l", "e" >>) \o << Plus(SpaceChars), Plus(Digits) >>

RuleRef == Lits(<< "R", "u", "l", "e" >>) \o << Plus(SpaceChars), Plus(Digits) >>

\* legal_patterns of _is_valid_footnote_pymupdf
legal_patterns ==
    { WitnessRef, TranscriptRef, DocumentRef, CaseRef, ParagraphRef, PageRef,
      LineRef, ArticleRef, RuleRef }

\* len(content) < 10 is rejected
MinFootnoteLen == 10

\* len(content) > 50 earns the length bonus
LengthBonusOver == 50

\* a continuation line is appended when len(line) > 10
MinContinuationLen == 10

\* a validation that looks for a citation before it looks for a date
ValidCitationFirst(content, footnote_num) ==
    IF Len(content) < MinFootnoteLen THEN FALSE
    ELSE IF \E p \in legal_patterns : Search(p, content, FALSE) THEN TRUE
    ELSE FALSE

_is_valid_footnote_pymupdf(content, footnote_num) ==
    IF Len(content) < MinFootnoteLen THEN FALSE
    ELSE IF \E k \in 1..Len(date_patterns) : Search(date_patterns[k], content, TRUE)
    THEN FALSE
    ELSE \E p \in legal_patterns : Search(p, content, FALSE)

\* the additions of _calculate_footnote_confidence, in tenths
ConfidenceWeights ==
    << << WitnessRef, 4 >>, << TranscriptRef, 3 >>, << DocumentRef, 2 >>,
       << CaseRef, 2 >>, << ParagraphRef, 1 >>, << PageRef, 1 >>,
       << ArticleRef, 1 >>, << RuleRef, 1 >> >>

\* a score in which the additions do not add up: the largest one is kept
RECURSIVE PatternScoreBest(_, _)
PatternScoreBest(content, k) ==
    IF k = 0 THEN 0
    ELSE LET rest == PatternScoreBest(content, k - 1)
             this == IF Search(ConfidenceWeights[k][1], content, FALSE)
                     THEN ConfidenceWeights[k][2] ELSE 0
         IN  IF this > rest THEN this ELSE rest

\* the score after the first k additions
RECURSIVE PatternScore(_, _)
PatternScore(content, k) ==
    IF k = 0 THEN 0
    ELSE PatternScore(content, k - 1)
            + (IF Search(ConfidenceWeights[k][1], content, FALSE)
               THEN ConfidenceWeights[k][2] ELSE 0)

\* the score before min(score, 1.0), in tenths
RawScore(content) ==
    PatternScore(content, Len(ConfidenceWeights))
        + (IF Len(content) > LengthBonusOver THEN 1 ELSE 0)

\* a score that is not capped
UnclampedConfidence(content) == RawScore(content)

\* _calculate_footnote_confidence, in tenths: min(score, 1.0)
_calculate_footnote_confidence(content) == Min2(RawScore(content), 10)

\* ------------------------------------------------------------------------
\* Lines of the text layer of a page, as text.split('\n') delivers them
\* ------------------------------------------------------------------------

\* '1 ICC-01 para. 4' (16 characters)
FootLine1 ==
    << "1", " ", "I", "C", "C", "-", "0", "1", " ", "p", "a", "r", "a", ".",
       " ", "4" >>

\* '  2 T-12, p. 3 ' (15 characters)
FootLine2 ==
    << " ", " ", "2", " ", "T", "-", "1", "2", ",", " ", "p", ".", " ", "3",
       " " >>

\* '1 P-0435: T-33, lines 2-9' (25 characters)
FootLineDup1 ==
    << "1", " ", "P", "-", "0", "4", "3", "5", ":", " ", "T", "-", "3", "3",
       ",", " ", "l", "i", "n", "e", "s", " ", "2", "-", "9" >>

\* '3 ICC-02 of 12 May 2014' (23 characters)
FootLineDate ==
    << "3", " ", "I", "C", "C", "-", "0", "2", " ", "o", "f", " ", "1", "2",
       " ", "M", "a", "y", " ", "2", "0", "1", "4" >>

\* '4 ICC-01/14' (11 characters)
FootLineNine ==
    << "4", " ", "I", "C", "C", "-", "0", "1", "/", "1", "4" >>

\* '5 P-1: T-2, CAR-D3, ICC-4 para. 5' (33 characters)
FootLineRich ==
    << "5", " ", "P", "-", "1", ":", " ", "T", "-", "2", ",", " ", "C", "A",
       "R", "-", "D", "3", ",", " ", "I", "C", "C", "-", "4", " ", "p", "a",
       "r", "a", ".", " ", "5" >>

\* '6 see the discussion above' (26 characters)
FootLineNoCite ==
    << "6", " ", "s", "e", "e", " ", "t", "h", "e", " ", "d", "i", "s", "c",
       "u", "s", "s", "i", "o", "n", " ", "a", "b", "o", "v", "e" >>

\* 'Trial Chamber decision' (22 characters)
FootLineCont ==
    << "T", "r", "i", "a", "l", " ", "C", "h", "a", "m", "b", "e", "r", " ",
       "d", "e", "c", "i", "s", "i", "o", "n" >>

\* 'see above.' (10 characters)
FootLineShortCont ==
    << "s", "e", "e", " ", "a", "b", "o", "v", "e", "." >>

\* 'No. ICC-01/14-01/18' (19 characters)
FootLineHeader ==
    << "N", "o", ".", " ", "I", "C", "C", "-", "0", "1", "/", "1", "4", "-",
       "0", "1", "/", "1", "8" >>

\* '  ' (2 characters)
FootLineBlank ==
    << " ", " " >>

\* the lines the text layer of a page is made of in this model
FootLinePool ==
    {FootLine1,
     FootLine2,
     FootLineDup1,
     FootLineDate,
     FootLineNine,
     FootLineRich,
     FootLineNoCite,
     FootLineCont,
     FootLineShortCont,
     FootLineHeader,
     FootLineBlank}

\* longest sequence of text-layer lines given to the Footnote Recognizer
MaxFootLines == 2

\* ------------------------------------------------------------------------
\* Footnote Recognizer: HybridPyMuPDFOCRChunker.extract_footnotes_pymupdf
\* ------------------------------------------------------------------------

\* "any(re.search(pattern, line) for pattern in header_patterns)"
IsHeader(line) ==
    \E k \in 1..Len(header_patterns) : Search(header_patterns[k], line, FALSE)

\* the stripped line is empty or a header or footer: continue
Skipped(line) == Len(Strip(line)) = 0 \/ IsHeader(Strip(line))

\* footnote_match of a line of the loop
FootnoteMatch(line) == MatchGroup(footnote_pattern, Strip(line))

\* content = line[footnote_match.end():].strip()
FootnoteContent(line) == Strip(From(Strip(line), FootnoteMatch(line).end))

\* a start that opens a footnote without validating the candidate
StartedUnvalidated(line, pg) ==
    Footnote(FootnoteMatch(line).group1, FootnoteContent(line), pg + 1,
             _calculate_footnote_confidence(FootnoteContent(line)), "pymupdf")

\* current_footnote after a line that starts with a footnote number
StartedFootnote(line, pg) ==
    LET footnote_num == FootnoteMatch(line).group1
        content      == FootnoteContent(line)
    IN  IF _is_valid_footnote_pymupdf(content, footnote_num)
        THEN Footnote(footnote_num, content, pg + 1,
                      _calculate_footnote_confidence(content), "pymupdf")
        ELSE None

\* a continuation that appends the line whatever its length
ContinuedWithAnyLine(current, line) ==
    IF current # None
    THEN [current EXCEPT !.content = @ \o << " " >> \o Strip(line)]
    ELSE current

\* a continuation that scores the footnote again on its new content
ContinuedAndRescored(current, line) ==
    IF current # None /\ Len(Strip(line)) > MinContinuationLen
    THEN [current EXCEPT
            !.content = @ \o << " " >> \o Strip(line),
            !.confidence =
                _calculate_footnote_confidence(
                    current.content \o << " " >> \o Strip(line))]
    ELSE current

\* current_footnote after a line that does not start with a footnote number
ContinuedFootnote(current, line) ==
    IF current # None /\ Len(Strip(line)) > MinContinuationLen
    THEN [current EXCEPT !.content = @ \o << " " >> \o Strip(line)]
    ELSE current

\* "if current_footnote: footnotes.append(current_footnote)"
SavedFootnotes(fs, current) ==
    IF current # None THEN Append(fs, current) ELSE fs

\* a call that finds the list of the previous call
KeptFootnotes(previous) == previous

\* "footnotes = []" at the start of a call, whatever a previous call left
FreshFootnotes(previous) == << >>

FootInit ==
    /\ fn_lines \in SeqsUpTo(FootLinePool, MaxFootLines)
    /\ fn_page \in {0, MaxPageIndex}
    /\ fn_idx = 0
    /\ footnotes = FreshFootnotes(<< >>)
    /\ current_footnote = None
    /\ fn_scan = 1
    /\ first_footnotes = << >>
    /\ fn_pc = "loop"

\* one iteration on a line that is empty or a header or footer
FootSkipLine ==
    /\ fn_pc = "loop"
    /\ fn_idx < Len(fn_lines)
    /\ Skipped(fn_lines[fn_idx + 1])
    /\ fn_idx' = fn_idx + 1
    /\ UNCHANGED << fn_lines, fn_page, footnotes, current_footnote, fn_scan,
                    first_footnotes, fn_pc >>
    /\ UNCHANGED << pdfVars, paraVars, orchVars, docVars >>

\* one iteration on a line that starts with a footnote number
FootNumberLine ==
    /\ fn_pc = "loop"
    /\ fn_idx < Len(fn_lines)
    /\ ~Skipped(fn_lines[fn_idx + 1])
    /\ FootnoteMatch(fn_lines[fn_idx + 1]) # None
    /\ footnotes' = SavedFootnotes(footnotes, current_footnote)
    /\ current_footnote' = StartedFootnote(fn_lines[fn_idx + 1], fn_page)
    /\ fn_idx' = fn_idx + 1
    /\ UNCHANGED << fn_lines, fn_page, fn_scan, first_footnotes, fn_pc >>
    /\ UNCHANGED << pdfVars, paraVars, orchVars, docVars >>

\* one iteration on a line that does not start with a footnote number
FootContinuationLine ==
    /\ fn_pc = "loop"
    /\ fn_idx < Len(fn_lines)
    /\ ~Skipped(fn_lines[fn_idx + 1])
    /\ FootnoteMatch(fn_lines[fn_idx + 1]) = None
    /\ current_footnote' = ContinuedFootnote(current_footnote, fn_lines[fn_idx + 1])
    /\ fn_idx' = fn_idx + 1
    /\ UNCHANGED << fn_lines, fn_page, footnotes, fn_scan, first_footnotes, fn_pc >>
    /\ UNCHANGED << pdfVars, paraVars, orchVars, docVars >>

\* after the loop: the last footnote is saved and the list returned
FootReturn ==
    /\ fn_pc = "loop"
    /\ fn_idx = Len(fn_lines)
    /\ footnotes' = SavedFootnotes(footnotes, current_footnote)
    /\ fn_pc' = "done"
    /\ UNCHANGED << fn_lines, fn_page, fn_idx, current_footnote, fn_scan,
                    first_footnotes >>
    /\ UNCHANGED << pdfVars, paraVars, orchVars, docVars >>

\* the caller keeps the list returned and calls extract_footnotes_pymupdf
\* again on the same page of the same chunker
FootScanAgain ==
    /\ fn_pc = "done"
    /\ fn_scan = 1
    /\ first_footnotes' = footnotes
    /\ footnotes' = FreshFootnotes(footnotes)
    /\ current_footnote' = None
    /\ fn_idx' = 0
    /\ fn_scan' = 2
    /\ fn_pc' = "loop"
    /\ UNCHANGED << fn_lines, fn_page >>
    /\ UNCHANGED << pdfVars, paraVars, orchVars, docVars >>

FootNext ==
    \/ FootSkipLine
    \/ FootNumberLine
    \/ FootContinuationLine
    \/ FootReturn
    \/ FootScanAgain

\* two calls of extract_footnotes_pymupdf on the text layer of one page
InitFoot == FootInit /\ ParaIdle /\ PdfIdle /\ OrchIdle /\ DocIdle

SpecFoot == InitFoot /\ [][FootNext]_vars

\* ------------------------------------------------------------------------
\* Properties of the Footnote Recognizer
\* ------------------------------------------------------------------------

\* the 1-based positions, among the first n lines, of the lines that start a
\* candidate footnote
CandidateLines(n) ==
    {i \in 1..n : ~Skipped(fn_lines[i]) /\ FootnoteMatch(fn_lines[i]) # None}

\* C12: the list the second call of extract_footnotes_pymupdf returns for a
\* page is the list the first call returned for it: same footnotes, same
\* numbers, contents, pages and confidences, in the same order.
C12_RescanIsIdentical ==
    (fn_pc = "done" /\ fn_scan = 2) => footnotes = first_footnotes

\* C12 witness: the second call has returned for a page whose first call
\* ended with an open footnote to which continuation text had been appended.
C12_Witness ==
    /\ fn_pc = "done"
    /\ fn_scan = 2
    /\ Len(fn_lines) >= 2
    /\ CandidateLines(Len(fn_lines)) = {1}
    /\ Len(first_footnotes) = 1
    /\ Len(first_footnotes[1].content) > Len(FootnoteContent(fn_lines[1]))

\* the content matches a date pattern, and a citation pattern
HasDate(content) ==
    \/ Search(date_patterns[1], content, TRUE)
    \/ Search(date_patterns[2], content, TRUE)
    \/ Search(date_patterns[3], content, TRUE)

HasCitation(content) ==
    \E p \in {WitnessRef, TranscriptRef, DocumentRef, CaseRef, ParagraphRef,
              PageRef, LineRef, ArticleRef, RuleRef} : Search(p, content, FALSE)

\* C13: right after a line that starts a candidate footnote, no footnote is
\* open if the candidate's content has fewer than 10 characters, whatever
\* it cites, or if it matches a date pattern, even when it cites; an open
\* footnote cites; and a candidate of 10 characters or more that matches no
\* date pattern and cites is the open footnote.
C13_ValidationIsAConjunction ==
    (fn_idx \in CandidateLines(fn_idx)) =>
       LET line    == fn_lines[fn_idx]
           content == FootnoteContent(line)
       IN  /\ Len(content) < 10 => current_footnote = None
           /\ HasDate(content) => current_footnote = None
           /\ current_footnote # None => HasCitation(content)
           /\ (Len(content) >= 10 /\ ~HasDate(content) /\ HasCitation(content)) =>
                 /\ current_footnote # None
                 /\ current_footnote.content = content
                 /\ current_footnote.number = FootnoteMatch(line).group1

\* C13 witness: a scan returned no footnote for a page with a candidate that
\* cites and matches a date pattern and a candidate of exactly 9 characters
\* that cites.
C13_Witness ==
    /\ fn_pc = "done"
    /\ footnotes = << >>
    /\ CandidateLines(Len(fn_lines)) = {1, 2}
    /\ HasCitation(FootnoteContent(fn_lines[1]))
    /\ HasDate(FootnoteContent(fn_lines[1]))
    /\ Len(FootnoteContent(fn_lines[1])) >= 10
    /\ HasCitation(FootnoteContent(fn_lines[2]))
    /\ Len(FootnoteContent(fn_lines[2])) = 9

\* the footnotes emitted and the open one
KnownFootnotes ==
    {footnotes[k] : k \in 1..Len(footnotes)}
        \cup (IF current_footnote # None THEN {current_footnote} ELSE {})

\* s starts with w
StartsWith(s, w) == Len(w) <= Len(s) /\ SubSeq(s, 1, Len(w)) = w

\* C14: the confidence of every footnote, emitted or open, is between 0.0
\* and 1.0 (0 and 10 tenths); it is the score of the content of the
\* candidate line the footnote was started from, and it is 0.7 or more when
\* that content matches a witness reference and a transcript reference.
C14_ConfidenceBounds ==
    \A f \in KnownFootnotes :
       /\ 0 <= f.confidence
       /\ f.confidence <= 10
       /\ \E i \in CandidateLines(fn_idx) :
             LET scored == FootnoteContent(fn_lines[i])
             IN  /\ f.number = FootnoteMatch(fn_lines[i]).group1
                 /\ StartsWith(f.content, scored)
                 /\ f.confidence = Min2(RawScore(scored), 10)
                 /\ (Search(WitnessRef, scored, FALSE)
                        /\ Search(TranscriptRef, scored, FALSE)) => f.confidence >= 7

\* C14 witness: a scan returned a footnote that matches a witness and a
\* transcript reference and scores 0.7, and one whose additions exceed 1.0.
C14_Witness ==
    /\ fn_pc = "done"
    /\ \E k \in 1..Len(footnotes) :
          /\ Search(WitnessRef, footnotes[k].content, FALSE)
          /\ Search(TranscriptRef, footnotes[k].content, FALSE)
          /\ footnotes[k].confidence = 7
    /\ \E k \in 1..Len(footnotes) :
          /\ RawScore(footnotes[k].content) > 10
          /\ footnotes[k].confidence = 10

\* C15: the footnotes emitted for a page have pairwise distinct numbers.
C15_DistinctFootnoteNumbers ==
    \A i, j \in 1..Len(footnotes) :
        footnotes[i].number = footnotes[j].number => i = j

\* C16: from one emitted record of a page to the next, the numeric value of
\* the number does not decrease, in the paragraphs of the Paragraph
\* Recognizer and in the footnotes of the Footnote Recognizer.
C16_NumbersNeverDecrease ==
    /\ \A k \in 1..(Len(paragraphs) - 1) :
          DecimalValue(paragraphs[k].number) <= DecimalValue(paragraphs[k + 1].number)
    /\ \A k \in 1..(Len(footnotes) - 1) :
          DecimalValue(footnotes[k].number) <= DecimalValue(footnotes[k + 1].number)

\* C17: every paragraph emitted starts at the first line of the page that
\* matches its number, and its content starts with the text of that line.
C17_FirstOccurrenceWins ==
    \A k \in 1..Len(paragraphs) :
       LET same  == {i \in NumberLines :
                        ParaMatch(lines[i]).group1 = paragraphs[k].number}
           first == CHOOSE i \in same : \A j \in same : i <= j
       IN  /\ paragraphs[k].start_line + 1 = first
           /\ StartsWith(paragraphs[k].content,
                         Strip(From(lines[first], ParaMatch(lines[first]).end)))

\* ------------------------------------------------------------------------
\* Properties of the Page Processor and of the two runs
\* ------------------------------------------------------------------------

\* the 0-based page indexes on which the sequential run has called
\* process_page and got its pair back
PagesDone ==
    IF doc_pc \in {"idle", "start"} \/ self_doc = "None" THEN {}
    ELSE {pg \in config_skip..(loop_page - 1) : pg < Len(pdf_pages)}

\* C18: the sequential run ends with an exception only when the document
\* cannot be opened: no page makes process_page raise, so a page whose
\* recognition fails does not keep the pages after it from being processed.
C18_PageFailureIsCaught ==
    /\ doc_pc = "raised" => self_doc = "None"
    /\ doc_pc \in {"pages", "processed", "chunking", "done"} =>
          \A pg \in PagesDone \cup {loop_page} :
             pg < Len(pdf_pages) => ~process_page(self_doc, pdf_pages, pg).raised

\* the footnotes recognized from the text layer of the page of index pg
TextLayerFootnotes(pg) ==
    [k \in 1..pdf_pages[pg + 1].foots |-> PageFootnote(pg, k)]

\* the OCR of the page of index pg yields no lines: blank page, or OCR raised
NoOcrLines(pg) == pdf_pages[pg + 1].ocr \in {"blank", "raises"}

\* C19: for every page processed whose OCR yields no lines, because the page
\* is blank or because the OCR raised, process_page does not raise and the
\* run has collected no paragraph of the page and exactly the footnotes of
\* its text layer.
C19_NoOcrLinesKeepsFootnotes ==
    \A pg \in PagesDone :
       NoOcrLines(pg) =>
          /\ ~process_page(self_doc, pdf_pages, pg).raised
          /\ process_page(self_doc, pdf_pages, pg).value
                = << << >>, TextLayerFootnotes(pg) >>
          /\ OnPage(all_paragraphs, pg + 1) = << >>
          /\ OnPage(all_footnotes, pg + 1) = TextLayerFootnotes(pg)

\* C19 witness: a run has processed a blank page and a page on which the OCR
\* raised, both with footnotes in the text layer, and a page with
\* paragraphs.
C19_Witness ==
    /\ doc_pc = "processed"
    /\ \E pg \in PagesDone :
          pdf_pages[pg + 1].ocr = "blank" /\ pdf_pages[pg + 1].foots >= 1
    /\ \E pg \in PagesDone :
          /\ pdf_pages[pg + 1].ocr = "raises"
          /\ pdf_pages[pg + 1].paras >= 1
          /\ pdf_pages[pg + 1].foots >= 1
    /\ Len(self_paragraphs) >= 1

\* the 1-based number of the physical page that process_page(page_num)
\* reads, self.doc[page_num], and writes into its records
PageRead(pg) == pg + 1

\* the page numbers the orchestrator has placed in its partitions
PartitionPages ==
    UNION {{page_partitions[n][j] : j \in 1..Len(page_partitions[n])} :
              n \in 1..Len(page_partitions)}

\* the physical pages the sequential run reads for the same document and
\* skip_first_pages: range(skip_first_pages, len(self.doc))
SequentialPagesRead ==
    {PageRead(pg) : pg \in config_skip..(total_pages - 1)}

\* C20: once the partitions are built, the physical pages process_page reads
\* for the page numbers of the partitions are the pages the sequential run
\* reads, skip_first_pages+1 .. total_pages; every page number of a
\* partition is a page index of the document; and the page read is the page
\* named in the result entry.
C20_SamePagesAsSequential ==
    Dispatched =>
       /\ {PageRead(pg) : pg \in PartitionPages} = SequentialPagesRead
       /\ SequentialPagesRead = (config_skip + 1)..total_pages
       /\ \A pg \in PartitionPages :
             /\ pg \in 0..(total_pages - 1)
             /\ PageRead(pg) = PageEntry(pg, Raised("TypeError")).page

\* ------------------------------------------------------------------------
\* The Footnote Recognizer on number lines built from citations
\* ------------------------------------------------------------------------

\* 'P-1:' (4 characters)
FragWitness ==
    << "P", "-", "1", ":" >>

\* 'T-2' (3 characters)
FragTranscript ==
    << "T", "-", "2" >>

\* 'CAR-' (4 characters)
FragDocument ==
    << "C", "A", "R", "-" >>

\* 'ICC-' (4 characters)
FragCase ==
    << "I", "C", "C", "-" >>

\* 'para. 5' (7 characters)
FragParagraph ==
    << "p", "a", "r", "a", ".", " ", "5" >>

\* 'p. 3' (4 characters)
FragPage ==
    << "p", ".", " ", "3" >>

\* 'Article 7' (9 characters)
FragArticle ==
    << "A", "r", "t", "i", "c", "l", "e", " ", "7" >>

\* 'Rule 8' (6 characters)
FragRule ==
    << "R", "u", "l", "e", " ", "8" >>

\* one citation for each "if re.search(...)" of _calculate_footnote_confidence,
\* in the order of the code
CitationFragments ==
    << FragWitness, FragTranscript, FragDocument, FragCase, FragParagraph,
       FragPage, FragArticle, FragRule >>

\* the citations of the indexes of S, in ascending order, joined with spaces
CitedContent(S) ==
    LET nth(k) == CHOOSE j \in S : Cardinality({m \in S : m < j}) = k - 1
    IN  Join([k \in 1..Cardinality(S) |-> CitationFragments[nth(k)]])

\* content followed by a word that brings it to n characters
Padded(content, n) ==
    IF Len(content) + 2 > n THEN content
    ELSE content \o << " " >> \o [i \in 1..(n - Len(content) - 1) |-> "x"]

\* every combination of citations
CitedContents ==
    {CitedContent(S) : S \in SUBSET (1..Len(CitationFragments))}

\* the combinations brought to exactly 51 characters, and those of at most
\* one citation brought to exactly 50
PaddedContents ==
    {Padded(c, LengthBonusOver + 1) : c \in CitedContents}
        \cup {Padded(CitedContent(S), LengthBonusOver) :
                 S \in {{}} \cup {{k} : k \in 1..Len(CitationFragments)}}

\* the text layer of a page that starts with the line '7 ' + content,
\* alone or followed by a blank line and a continuation line
NumberLineOf(content) == << "7", " " >> \o content

ScorePages ==
    {<< NumberLineOf(c) >> : c \in CitedContents \cup PaddedContents}
        \cup {<< NumberLineOf(c), FootLineBlank, FootLineCont >> : c \in CitedContents}

ScoreInit ==
    /\ fn_lines \in ScorePages
    /\ fn_page = 0
    /\ fn_idx = 0
    /\ footnotes = FreshFootnotes(<< >>)
    /\ current_footnote = None
    /\ fn_scan = 1
    /\ first_footnotes = << >>
    /\ fn_pc = "loop"

\* two calls of extract_footnotes_pymupdf on such a page
InitScore == ScoreInit /\ ParaIdle /\ PdfIdle /\ OrchIdle /\ DocIdle

SpecScore == InitScore /\ [][FootNext]_vars

\* the citations a content holds, by plain substring search
CitedIn(content) ==
    {k \in 1..Len(CitationFragments) : Contains(content, CitationFragments[k])}

\* the fixed increments, in tenths: witness 0.4, transcript 0.3, CAR- 0.2,
\* ICC- 0.2, paragraph, page, article and rule reference 0.1 each
Increments == << 4, 3, 2, 2, 1, 1, 1, 1 >>

\* the sum of the increments of the citations of S
RECURSIVE IncrementSum(_, _)
IncrementSum(S, k) ==
    IF k = 0 THEN 0
    ELSE IncrementSum(S, k - 1) + (IF k \in S THEN Increments[k] ELSE 0)

\* C21: the confidence of every footnote, emitted or open, is the smaller of
\* 1.0 and the sum of the increments of the citations its number line holds
\* (witness 0.4, transcript 0.3, CAR- 0.2, ICC- 0.2, paragraph, page, article
\* and rule reference 0.1 each), plus 0.1 when the content of the number line
\* is longer than 50 characters; the increments of several citations add up.
C21_ConfidenceIsCappedSum ==
    \A f \in KnownFootnotes :
       LET scored == FootnoteContent(fn_lines[1])
       IN  /\ CitedIn(scored) # {}
           /\ f.confidence =
                 Min2(10, IncrementSum(CitedIn(scored), Len(Increments))
                             + (IF Len(scored) > 50 THEN 1 ELSE 0))

\* C21 witness: a scan returned a footnote whose content of at most 50
\* characters holds a witness and a paragraph reference and nothing else,
\* with confidence 0.5.
C21_Witness ==
    /\ fn_pc = "done"
    /\ Len(footnotes) = 1
    /\ CitedIn(FootnoteContent(fn_lines[1])) = {1, 5}
    /\ Len(FootnoteContent(fn_lines[1])) <= 50
    /\ footnotes[1].confidence = 5

\* ------------------------------------------------------------------------
\* Properties of the Paragraph Recognizer
\* ------------------------------------------------------------------------

\* the keywords of legal prose, in lower case
Keywords ==
    { << "c", "h", "a", "m", "b", "e", "r" >>,
      << "c", "o", "u", "r", "t" >>,
      << "e", "v", "i", "d", "e", "n", "c", "e" >>,
      << "s", "t", "a", "t", "u", "t", "e" >>,
      << "a", "r", "t", "i", "c", "l", "e" >> }

\* at least 50 characters, and a keyword in any case or at least 10 tokens
PassesParagraphTest(content) ==
    /\ Len(content) >= 50
    /\ \/ \E w \in Keywords : Contains(Lower(content), w)
       \/ WordCount(content) >= 10

\* an accumulation is open: a number and at least one buffered line
OpenCandidate == current_para # << >> /\ current_num # None

\* this step closes the open accumulation: it handles a number line, or the
\* end of the page
ClosingStep ==
    /\ ocr_pc = "loop"
    /\ OpenCandidate
    /\ \/ ocr_pc' = "done"
       \/ line_num' = line_num + 1 /\ ParaMatch(lines[line_num + 1]) # None

\* C22: every paragraph emitted has content of at least 50 characters that
\* holds one of the keywords chamber, court, evidence, statute, article in
\* any case or has at least 10 whitespace-delimited tokens; and when an
\* accumulation is closed, by a number line or at the end of the page, a
\* content that fails this test adds no record, and one that passes it adds
\* one record with that content and number.
C22_OnlyValidatedParagraphs ==
    /\ [](\A k \in 1..Len(paragraphs) : PassesParagraphTest(paragraphs[k].content))
    /\ [][ClosingStep =>
            LET content == Strip(Join(current_para))
            IN  IF PassesParagraphTest(content)
                THEN /\ Len(paragraphs') = Len(paragraphs) + 1
                     /\ SubSeq(paragraphs', 1, Len(paragraphs)) = paragraphs
                     /\ paragraphs'[Len(paragraphs')].content = content
                     /\ paragraphs'[Len(paragraphs')].number = current_num
                ELSE paragraphs' = paragraphs]_vars

\* C22 witness: a scan has returned one paragraph of fewer than 10 tokens,
\* accepted for its keyword in capitals, and no record for its last
\* accumulation, which has 50 characters or more, no keyword and fewer than
\* 10 tokens.
C22_Witness ==
    /\ ocr_pc = "done"
    /\ Len(paragraphs) = 1
    /\ WordCount(paragraphs[1].content) < 10
    /\ ~(\E w \in Keywords : Contains(paragraphs[1].content, w))
    /\ OpenCandidate
    /\ current_num # paragraphs[1].number
    /\ Len(Strip(Join(current_para))) >= 50
    /\ ~PassesParagraphTest(Strip(Join(current_para)))

\* the text a number line gives to its paragraph: what follows the number
Remainder(i) == Strip(From(lines[i], ParaMatch(lines[i]).end))

\* the content made of the number line i and of the lines after it up to j
ContentOf(i, j) == Strip(Join(<< Remainder(i) >> \o SubSeq(lines, i + 1, j)))

\* the 1-based position of the number line of the open accumulation
OpenStart == line_num - Len(current_para) + 1

\* C23: every emitted paragraph is made of one stretch of lines, its number
\* line followed by lines that match no number pattern, and nothing else; the
\* stretch ends where the next number line stands or at the end of the page;
\* the stretches of the paragraphs follow one another in the order of
\* emission without overlapping, so that no line is part of two paragraphs;
\* and an open accumulation is made of the lines from its number line on,
\* which stands after the stretch of every emitted paragraph.
C23_ClosedBeforeNextStarts ==
    /\ \A k \in 1..Len(paragraphs) :
          LET a == paragraphs[k].start_line + 1
              b == paragraphs[k].end_line
          IN  /\ 1 <= a /\ a <= b /\ b <= line_num
              /\ a \in NumberLines
              /\ ParaMatch(lines[a]).group1 = paragraphs[k].number
              /\ \A i \in (a + 1)..b : i \notin NumberLines
              /\ paragraphs[k].content = ContentOf(a, b)
              /\ b = Len(lines) \/ (b + 1) \in NumberLines
              /\ k < Len(paragraphs) => b < paragraphs[k + 1].start_line + 1
    /\ (ocr_pc = "loop" /\ OpenCandidate) =>
          /\ OpenStart \in NumberLines
          /\ ParaMatch(lines[OpenStart]).group1 = current_num
          /\ current_para = << Remainder(OpenStart) >> \o SubSeq(lines, OpenStart + 1, line_num)
          /\ \A k \in 1..Len(paragraphs) : paragraphs[k].end_line < OpenStart

\* C23 witness: a scan has returned two paragraphs; the first was closed by
\* the number line of the second, and the second, of two lines, at the end
\* of the page.
C23_Witness ==
    /\ ocr_pc = "done"
    /\ Len(paragraphs) = 2
    /\ paragraphs[1].end_line = paragraphs[2].start_line
    /\ paragraphs[2].end_line = paragraphs[2].start_line + 2
    /\ paragraphs[2].end_line = Len(lines)

\* C24 as stated: the token_count of every emitted paragraph is 1.3 times the
\* number of whitespace-delimited tokens of its content rounded to the
\* nearest integer: it is at most one half away from the product (in tenths:
\* at most 5 away from 13 times the number of tokens).
C24_TokenCountIsRounded ==
    \A k \in 1..Len(paragraphs) :
       LET tenths == 13 * WordCount(paragraphs[k].content)
       IN  /\ 10 * paragraphs[k].token_count <= tenths + 5
           /\ tenths - 5 <= 10 * paragraphs[k].token_count

\* C24 amended: the token_count of every emitted paragraph is 1.3 times the
\* number of whitespace-delimited tokens of its content with the fraction cut
\* off: the largest integer that does not exceed the product.
C24_TokenCountIsTruncated ==
    \A k \in 1..Len(paragraphs) :
       LET tenths == 13 * WordCount(paragraphs[k].content)
       IN  /\ 10 * paragraphs[k].token_count <= tenths
           /\ tenths < 10 * (paragraphs[k].token_count + 1)

\* C24 witness: a scan has returned a paragraph of 6 tokens with token_count
\* 7, where the product is 7.8.
C24_Witness ==
    /\ ocr_pc = "done"
    /\ \E k \in 1..Len(paragraphs) :
          /\ WordCount(paragraphs[k].content) = 6
          /\ paragraphs[k].token_count = 7

\* the 1-based positions at which a maximal run of digits of s starts
RunStarts(s) ==
    {i \in 1..Len(s) : IsDigit(s[i]) /\ (i = 1 \/ ~IsDigit(s[i - 1]))}

\* the maximal runs of 1 to 3 digits of s, in order of appearance
StandaloneRuns(s) ==
    LET starts == {i \in RunStarts(s) : DigitRun(s, i) <= 3}
        nth(k) == CHOOSE j \in starts : Cardinality({m \in starts : m < j}) = k - 1
    IN  [k \in 1..Cardinality(starts) |->
            SubSeq(s, nth(k), nth(k) + DigitRun(s, nth(k)) - 1)]

\* C25: the footnote_references of every emitted paragraph are the standalone
\* runs of 1 to 3 digits of its content, in order of appearance; a run of 4
\* digits or more gives no reference and is not cut into shorter ones.
C25_ReferencesAreStandaloneRuns ==
    \A k \in 1..Len(paragraphs) :
        paragraphs[k].footnote_references = StandaloneRuns(paragraphs[k].content)

\* ------------------------------------------------------------------------
\* The Footnote Recognizer on longer pages that start with a footnote
\* ------------------------------------------------------------------------

\* longest sequence of lines after the first line of such a page
MaxFollowLines == 3

\* the lines that follow the first: a candidate of 9 characters, a valid
\* footnote, a long and a short continuation line, a header
FollowPool ==
    {FootLineNine, FootLine2, FootLineCont, FootLineShortCont, FootLineHeader}

\* the text layer of a page that starts with the line FootLine1
FollowInit ==
    /\ fn_lines \in {<< FootLine1 >> \o t : t \in SeqsUpTo(FollowPool, MaxFollowLines)}
    /\ fn_page = 0
    /\ fn_idx = 0
    /\ footnotes = FreshFootnotes(<< >>)
    /\ current_footnote = None
    /\ fn_scan = 1
    /\ first_footnotes = << >>
    /\ fn_pc = "loop"

\* two calls of extract_footnotes_pymupdf on such a page
InitFollow == FollowInit /\ ParaIdle /\ PdfIdle /\ OrchIdle /\ DocIdle

SpecFollow == InitFollow /\ [][FootNext]_vars

\* the candidate of line i fails validation: its content is shorter than 10
\* characters, or matches a date pattern, or cites nothing
FailsValidation(i) ==
    LET content == FootnoteContent(fn_lines[i])
    IN  Len(content) < 10 \/ HasDate(content) \/ ~HasCitation(content)

\* C26: while the last candidate line scanned is one that fails validation,
\* no footnote is open; the step that scans such a line appends the footnote
\* that was open, as it was, to the list and opens none; and while no
\* footnote is open, a line that is not a candidate line, and the end of the
\* page, change neither the list nor the open footnote.
C26_FailedCandidateOpensNothing ==
    /\ []((CandidateLines(fn_idx) # {} /\ FailsValidation(Max(CandidateLines(fn_idx))))
             => current_footnote = None)
    /\ [][(fn_pc = "loop" /\ fn_idx' = fn_idx + 1) =>
            IF (fn_idx + 1) \in CandidateLines(fn_idx + 1)
            THEN FailsValidation(fn_idx + 1) =>
                    /\ current_footnote' = None
                    /\ footnotes' = IF current_footnote # None
                                    THEN Append(footnotes, current_footnote)
                                    ELSE footnotes
            ELSE current_footnote = None =>
                    /\ current_footnote' = None
                    /\ footnotes' = footnotes]_vars
    /\ [][(fn_pc = "loop" /\ fn_pc' = "done" /\ current_footnote = None) =>
            footnotes' = footnotes]_vars

\* C26 witness: a scan has returned a page of four lines: a footnote, a
\* candidate that fails validation, a long continuation line and a second
\* footnote; the first footnote has the content of its number line only.
C26_Witness ==
    /\ fn_pc = "done"
    /\ Len(fn_lines) = 4
    /\ CandidateLines(4) = {1, 2, 4}
    /\ FailsValidation(2)
    /\ ~Skipped(fn_lines[3])
    /\ Len(Strip(fn_lines[3])) > 10
    /\ Len(footnotes) = 2
    /\ footnotes[1].content = FootnoteContent(fn_lines[1])
    /\ footnotes[2].content = FootnoteContent(fn_lines[4])

\* the 1-based positions, from a + 1 to b, of the lines that continue a
\* footnote: they match neither a header or footer pattern nor the
\* footnote-start pattern and are longer than 10 characters
ContinuationLines(a, b) ==
    {i \in (a + 1)..b :
        /\ ~Skipped(fn_lines[i])
        /\ FootnoteMatch(fn_lines[i]) = None
        /\ Len(Strip(fn_lines[i])) > 10}

\* the remainder of the number line a followed by the continuation lines up
\* to b, in input order, joined with single spaces
FootnoteText(a, b) ==
    LET S      == ContinuationLines(a, b)
        nth(k) == CHOOSE j \in S : Cardinality({m \in S : m < j}) = k - 1
    IN  Join(<< FootnoteContent(fn_lines[a]) >>
                \o [k \in 1..Cardinality(S) |-> Strip(fn_lines[nth(k)])])

\* the last line before the first of the candidate lines C after a, or the
\* last line of the page
StretchEnd(C, a) ==
    LET later == {i \in C : i > a}
    IN  IF later = {} THEN Len(fn_lines)
        ELSE (CHOOSE i \in later : \A j \in later : i <= j) - 1

\* C27: the footnotes emitted are those of the valid candidate lines, in
\* order, and the content of each is the remainder of its number line followed
\* by, joined with single spaces and in input order, exactly the later lines
\* up to the next footnote-start line or the end of the page that match
\* neither a header or footer pattern nor the footnote-start pattern and are
\* longer than 10 characters; the open footnote is made the same way of the
\* lines scanned so far; a returned list holds one footnote for each valid
\* candidate line.
C27_ContentIsNumberLinePlusContinuations ==
    LET C      == CandidateLines(Len(fn_lines))
        V      == {i \in C : i <= fn_idx /\ ~FailsValidation(i)}
        nth(k) == CHOOSE j \in V : Cardinality({m \in V : m < j}) = k - 1
    IN  /\ Len(footnotes) <= Cardinality(V)
        /\ \A k \in 1..Len(footnotes) :
              /\ footnotes[k].number = FootnoteMatch(fn_lines[nth(k)]).group1
              /\ StretchEnd(C, nth(k)) <= fn_idx
              /\ footnotes[k].content = FootnoteText(nth(k), StretchEnd(C, nth(k)))
        /\ (fn_pc = "loop" /\ current_footnote # None) =>
              /\ V # {}
              /\ current_footnote.content = FootnoteText(Max(V), fn_idx)
        /\ fn_pc = "done" => Len(footnotes) = Cardinality(V)

\* C27 witness: a scan has returned one footnote for a page of four lines: a
\* number line, a line of 10 characters, a header and a longer line; the
\* content is the remainder of the number line, a space and the last line.
C27_Witness ==
    /\ fn_pc = "done"
    /\ Len(fn_lines) = 4
    /\ CandidateLines(4) = {1}
    /\ Len(Strip(fn_lines[2])) = 10
    /\ ~Skipped(fn_lines[2])
    /\ IsHeader(Strip(fn_lines[3]))
    /\ ContinuationLines(1, 4) = {4}
    /\ Len(footnotes) = 1
    /\ footnotes[1].content
          = FootnoteContent(fn_lines[1]) \o << " " >> \o Strip(fn_lines[4])

\* the number line i matches a number emitted before it was scanned or by
\* the close it caused
Suppressed(i) ==
    /\ i \in NumberLines
    /\ \E k \in 1..Len(paragraphs) :
          /\ paragraphs[k].number = ParaMatch(lines[i]).group1
          /\ paragraphs[k].end_line <= i - 1

\* the lines dropped after the suppressed line i: the line itself and the
\* lines after it up to the next number line, among the lines scanned
DroppedAfter(i) ==
    {j \in i..line_num : \A n \in (i + 1)..j : n \notin NumberLines}

\* line j is part of the stretch of paragraph k
InStretch(j, k) ==
    paragraphs[k].start_line + 1 <= j /\ j <= paragraphs[k].end_line

\* C28: the content of every emitted paragraph is made of the lines of its
\* stretch only; a scanned line that matches a number already emitted, and
\* every line after it up to the next number line, is in the stretch of no
\* paragraph; right after such a line is scanned, and as long as only lines
\* that match no number pattern follow, nothing accumulates; and the step
\* that scans it closes the open paragraph as any number line does.
C28_SeenNumberSuppresses ==
    /\ [](/\ \A k \in 1..Len(paragraphs) :
                paragraphs[k].content
                   = ContentOf(paragraphs[k].start_line + 1, paragraphs[k].end_line)
          /\ \A i \in 1..line_num :
                Suppressed(i) =>
                   /\ \A j \in DroppedAfter(i) : \A k \in 1..Len(paragraphs) : ~InStretch(j, k)
                   /\ line_num \in DroppedAfter(i) =>
                         current_para = << >> /\ current_num = None)
    /\ [][(ClosingStep /\ line_num' = line_num + 1
                       /\ ParaMatch(lines[line_num + 1]).group1
                             \in seen_numbers \cup {current_num}
                       /\ PassesParagraphTest(Strip(Join(current_para)))) =>
            /\ Len(paragraphs') = Len(paragraphs) + 1
            /\ paragraphs'[Len(paragraphs')].number = current_num
            /\ current_para' = << >>
            /\ current_num' = None]_vars

\* C28 witness: a scan has returned one paragraph for a page of three lines:
\* its number line, a line with the same number and a line that matches no
\* number pattern; the second line closed the paragraph.
C28_Witness ==
    /\ ocr_pc = "done"
    /\ Len(lines) = 3
    /\ NumberLines = {1, 2}
    /\ ParaMatch(lines[1]).group1 = ParaMatch(lines[2]).group1
    /\ Len(paragraphs) = 1
    /\ paragraphs[1].end_line = 1
    /\ current_para = << >>

\* ------------------------------------------------------------------------
\* Partition tasks, line by line: _process_page_partition with the calls of
\* process_page taken one statement of the recognizers at a time
\* ------------------------------------------------------------------------

\* pages with the lines of their text layer and the lines the OCR delivers
ScanPage1 ==
    [text |-> << FootLine1, FootLineCont >>, ocr |-> << LineValid1, LineCont >>]

ScanPage2 ==
    [text |-> << FootLine2 >>, ocr |-> << LineValid1, LineNoSpace2 >>]

ScanPage3 ==
    [text |-> << FootLineCont, FootLineRich >>, ocr |-> << LineCont, LineDup1 >>]

ScanPageBlank ==
    [text |-> << FootLineNoCite >>, ocr |-> << >>]

ScanPages == {ScanPage1, ScanPage2, ScanPage3, ScanPageBlank}

\* documents of three pages; a task given page number pg reads self.doc[pg],
\* the page after the one the number names
ScanDocs == {<< ScanPageBlank, a, b >> : a, b \in ScanPages}

\* the locals of the two recognizers before either is called
NoLocals ==
    [fn_lines |-> << >>, fn_idx |-> 0, footnotes |-> << >>,
     current_footnote |-> None,
     lines |-> << >>, line_num |-> 0, current_para |-> << >>,
     current_num |-> None, seen_numbers |-> {}, paragraphs |-> << >>]

\* the field doc of the chunker of a task: None as the constructor leaves it,
\* or the Document that open_document puts there
ChunkerDocs == {"None", "Document"}

\* a task about to enter the loop over page_range, on a chunker whose field
\* doc is doc
ScanTask(doc) ==
    [pc |-> "page", doc |-> doc, i |-> 0, results |-> << >>, scan |-> NoLocals]

\* the task appends the entry of the page and goes to the next page
PageFinished(t, entry) ==
    [t EXCEPT !.results = Append(@, entry), !.i = @ + 1, !.pc = "page",
              !.scan = NoLocals]

\* process_page(pg) up to the loop of extract_footnotes_pymupdf:
\* self.doc[page_num], the text layer split into lines, footnotes = [],
\* current_footnote = None
PageBegun(t, pdf, pg) ==
    IF t.doc = "None" THEN PageFinished(t, PageEntry(pg, Raised("TypeError")))
    ELSE IF pg + 1 > Len(pdf) THEN PageFinished(t, PageEntry(pg, Raised("IndexError")))
    ELSE [t EXCEPT !.pc = "footnotes",
                   !.scan = [NoLocals EXCEPT !.fn_lines = pdf[pg + 1].text,
                                             !.footnotes = FreshFootnotes(<< >>)]]

\* one iteration of the loop of extract_footnotes_pymupdf(pg) on the locals s
FootnoteLineScanned(s, pg) ==
    LET line == s.fn_lines[s.fn_idx + 1]
    IN  IF Skipped(line) THEN [s EXCEPT !.fn_idx = @ + 1]
        ELSE IF FootnoteMatch(line) # None
        THEN [s EXCEPT !.footnotes = SavedFootnotes(@, s.current_footnote),
                       !.current_footnote = StartedFootnote(line, pg),
                       !.fn_idx = @ + 1]
        ELSE [s EXCEPT !.current_footnote = ContinuedFootnote(@, line),
                       !.fn_idx = @ + 1]

\* extract_footnotes_pymupdf returns; process_page reads the lines of the OCR
\* and returns without paragraphs when there are none, or else comes to the
\* loop of extract_paragraphs_ocr with its four locals fresh
FootnotesReturned(t, pdf, pg) ==
    LET fs == SavedFootnotes(t.scan.footnotes, t.scan.current_footnote)
    IN  IF Len(pdf[pg + 1].ocr) = 0
        THEN PageFinished(t, PageEntry(pg, Returned(<< << >>, fs >>)))
        ELSE [t EXCEPT !.pc = "paragraphs",
                       !.scan = [t.scan EXCEPT !.footnotes = fs,
                                               !.lines = pdf[pg + 1].ocr]]

\* one iteration of the loop of extract_paragraphs_ocr(lines, pg) on the
\* locals s
ParagraphLineScanned(s, pg) ==
    LET line == s.lines[s.line_num + 1]
        m    == ParaMatch(line)
        seen == SavedSeen(s.current_para, s.current_num, s.seen_numbers)
    IN  IF m # None
        THEN [s EXCEPT
                !.paragraphs = SavedParagraphs(@, s.current_para, s.current_num,
                                               s.seen_numbers, pg, s.line_num),
                !.seen_numbers = seen,
                !.current_num = IF StartsNew(m.group1, seen) THEN m.group1 ELSE None,
                !.current_para = IF StartsNew(m.group1, seen)
                                 THEN StartedParagraph(@, line, m)
                                 ELSE << >>,
                !.line_num = @ + 1]
        ELSE [s EXCEPT
                !.current_para = IF Len(@) > 0 THEN Append(@, line) ELSE @,
                !.line_num = @ + 1]

\* extract_paragraphs_ocr handles the last paragraph and returns, and
\* process_page returns the two lists
ParagraphsReturned(t, pg) ==
    LET ps == SavedParagraphs(t.scan.paragraphs, t.scan.current_para,
                              t.scan.current_num, t.scan.seen_numbers, pg,
                              Len(t.scan.lines))
    IN  PageFinished(t, PageEntry(pg, Returned(<< ps, t.scan.footnotes >>)))

\* locals that see the numbers every task has emitted
LocalsWithSharedSeen(ts, n) ==
    [ts[n].scan EXCEPT
        !.seen_numbers = UNION {ts[m].scan.seen_numbers : m \in DOMAIN ts}]

\* the locals an invocation of a recognizer works on: those it made itself
\* ("footnotes = []", "current_footnote = None", "current_para = []",
\* "seen_numbers = set()")
TaskLocals(ts, n) == ts[n].scan

\* the page the loop of task n is at
TaskPage(n) == page_partitions[n][tasks[n].i + 1]

TaskInit ==
    /\ pdf_readable = TRUE
    /\ pdf_pages \in ScanDocs
    /\ config_skip \in 0..MaxSkip
    /\ config_per \in 1..MaxPerPartition
    /\ total_pages = _get_pdf_metadata(pdf_readable, pdf_pages)
    /\ page_partitions = PagePartitions(total_pages, config_skip, config_per)
    /\ \E doc \in ChunkerDocs :
          tasks = [n \in 1..Len(page_partitions) |-> ScanTask(doc)]
    /\ all_results = << >>
    /\ result = None
    /\ orch_pc = "running"

\* task n takes the next page of its page_range
TaskBeginsPage(n) ==
    /\ tasks[n].pc = "page"
    /\ tasks[n].i < Len(page_partitions[n])
    /\ tasks' = [tasks EXCEPT ![n] = PageBegun(@, pdf_pages, TaskPage(n))]
    /\ UNCHANGED << config_skip, config_per, total_pages, page_partitions,
                    all_results, result, orch_pc >>
    /\ UNCHANGED << pdfVars, footVars, paraVars, docVars >>

\* task n scans one line of the text layer
TaskScansFootnoteLine(n) ==
    /\ tasks[n].pc = "footnotes"
    /\ tasks[n].scan.fn_idx < Len(tasks[n].scan.fn_lines)
    /\ tasks' = [tasks EXCEPT
          ![n].scan = FootnoteLineScanned(TaskLocals(tasks, n), TaskPage(n))]
    /\ UNCHANGED << config_skip, config_per, total_pages, page_partitions,
                    all_results, result, orch_pc >>
    /\ UNCHANGED << pdfVars, footVars, paraVars, docVars >>

\* the Footnote Recognizer of task n returns
TaskFootnotesReturn(n) ==
    /\ tasks[n].pc = "footnotes"
    /\ tasks[n].scan.fn_idx = Len(tasks[n].scan.fn_lines)
    /\ tasks' = [tasks EXCEPT
          ![n] = FootnotesReturned([@ EXCEPT !.scan = TaskLocals(tasks, n)],
                                   pdf_pages, TaskPage(n))]
    /\ UNCHANGED << config_skip, config_per, total_pages, page_partitions,
                    all_results, result, orch_pc >>
    /\ UNCHANGED << pdfVars, footVars, paraVars, docVars >>

\* task n scans one line of the OCR
TaskScansParagraphLine(n) ==
    /\ tasks[n].pc = "paragraphs"
    /\ tasks[n].scan.line_num < Len(tasks[n].scan.lines)
    /\ tasks' = [tasks EXCEPT
          ![n].scan = ParagraphLineScanned(TaskLocals(tasks, n), TaskPage(n))]
    /\ UNCHANGED << config_skip, config_per, total_pages, page_partitions,
                    all_results, result, orch_pc >>
    /\ UNCHANGED << pdfVars, footVars, paraVars, docVars >>

\* the Paragraph Recognizer of task n returns and the entry of the page is
\* appended
TaskParagraphsReturn(n) ==
    /\ tasks[n].pc = "paragraphs"
    /\ tasks[n].scan.line_num = Len(tasks[n].scan.lines)
    /\ tasks' = [tasks EXCEPT
          ![n] = ParagraphsReturned([@ EXCEPT !.scan = TaskLocals(tasks, n)],
                                    TaskPage(n))]
    /\ UNCHANGED << config_skip, config_per, total_pages, page_partitions,
                    all_results, result, orch_pc >>
    /\ UNCHANGED << pdfVars, footVars, paraVars, docVars >>

\* the loop of task n is over and the task returns its results
TaskEnds(n) ==
    /\ tasks[n].pc = "page"
    /\ tasks[n].i = Len(page_partitions[n])
    /\ tasks' = [tasks EXCEPT ![n].pc = "done"]
    /\ UNCHANGED << config_skip, config_per, total_pages, page_partitions,
                    all_results, result, orch_pc >>
    /\ UNCHANGED << pdfVars, footVars, paraVars, docVars >>

TaskNext ==
    \/ \E n \in 1..Len(tasks) : TaskBeginsPage(n)
    \/ \E n \in 1..Len(tasks) : TaskScansFootnoteLine(n)
    \/ \E n \in 1..Len(tasks) : TaskFootnotesReturn(n)
    \/ \E n \in 1..Len(tasks) : TaskScansParagraphLine(n)
    \/ \E n \in 1..Len(tasks) : TaskParagraphsReturn(n)
    \/ \E n \in 1..Len(tasks) : TaskEnds(n)

\* the partition tasks of one document, run concurrently
InitTasks == TaskInit /\ ParaIdle /\ DocIdle /\ FootIdle

SpecTasks == InitTasks /\ [][TaskNext]_vars

\* ------------------------------------------------------------------------
\* Properties of the concurrent partition tasks
\* ------------------------------------------------------------------------

\* one statement of a task that has page pg alone
AloneStep(t, pdf, pg) ==
    IF t.pc = "page" THEN PageBegun(t, pdf, pg)
    ELSE IF t.pc = "footnotes"
    THEN IF t.scan.fn_idx < Len(t.scan.fn_lines)
         THEN [t EXCEPT !.scan = FootnoteLineScanned(@, pg)]
         ELSE FootnotesReturned(t, pdf, pg)
    ELSE IF t.scan.line_num < Len(t.scan.lines)
         THEN [t EXCEPT !.scan = ParagraphLineScanned(@, pg)]
         ELSE ParagraphsReturned(t, pg)

\* the states of the task t that has page pg alone, up to the entry of the
\* page
RECURSIVE AloneTrace(_, _, _)
AloneTrace(t, pdf, pg) ==
    IF t.i = 1 THEN << t >>
    ELSE << t >> \o AloneTrace(AloneStep(t, pdf, pg), pdf, pg)

\* the runs of every page of every document alone
AloneRuns ==
    [doc \in ChunkerDocs |->
        [pdf \in ScanDocs |->
            [pg \in 1..Len(pdf) |-> AloneTrace(ScanTask(doc), pdf, pg)]]]

\* the task that has page pg alone, after k statements
AloneAfter(doc, pdf, pg, k) == AloneRuns[doc][pdf][pg][k + 1]

\* the entry of page pg when the page is processed alone
AloneEntry(doc, pdf, pg) ==
    AloneRuns[doc][pdf][pg][Len(AloneRuns[doc][pdf][pg])].results[1]

\* the statements task n has executed on the page it is at
StatementsOnPage(n) ==
    IF tasks[n].pc = "footnotes" THEN 1 + tasks[n].scan.fn_idx
    ELSE IF tasks[n].pc = "paragraphs"
    THEN 2 + Len(tasks[n].scan.fn_lines) + tasks[n].scan.line_num
    ELSE 0

\* task n is inside a recognizer
Scanning(n) == tasks[n].pc \in {"footnotes", "paragraphs"}

\* the scan state of every task is the one the page alone would have made,
\* and so is every entry
IsolatedTasks ==
    \A n \in 1..Len(tasks) :
        /\ Scanning(n) =>
              tasks[n].scan =
                  AloneAfter(tasks[n].doc, pdf_pages, TaskPage(n),
                             StatementsOnPage(n)).scan
        /\ ~Scanning(n) => tasks[n].scan = NoLocals
        /\ Len(tasks[n].results) = tasks[n].i
        /\ \A j \in 1..tasks[n].i :
              tasks[n].results[j] =
                  AloneEntry(tasks[n].doc, pdf_pages, page_partitions[n][j])

\* a step of one task leaves every other task as it was
OneTaskMoves ==
    \A n \in 1..Len(tasks) :
        tasks'[n] # tasks[n] =>
            \A m \in 1..Len(tasks) : m # n => tasks'[m] = tasks[m]

\* C29: page tasks share no mutable state. Under every interleaving of the
\* partition tasks and every cut of the pages into partitions, the entry a
\* task makes for a page is the entry the page gets when it is processed
\* alone, the scan state of a task (open footnote, buffered lines, seen
\* numbers) is at every statement the one the page alone would have, and a
\* step of one task changes no other task.
C29_TasksShareNoState == []IsolatedTasks /\ [][OneTaskMoves]_vars

\* two tasks are inside the Paragraph Recognizer at once, one has emitted a
\* number and the other is accumulating a paragraph of the same number
C29_Witness ==
    \E n, m \in 1..Len(tasks) :
        /\ n # m
        /\ tasks[n].pc = "paragraphs"
        /\ tasks[m].pc = "paragraphs"
        /\ tasks[n].scan.seen_numbers # {}
        /\ tasks[m].scan.current_num \in tasks[n].scan.seen_numbers

\* ------------------------------------------------------------------------
\* The page written by the aggregation
\* ------------------------------------------------------------------------

\* page_data: the entry the branch "if page_result" describes for page number
\* pg and a result of paragraphs and footnotes
PageData(pg, value) ==
    [page |-> pg, paragraphs |-> value[1], footnotes |-> value[2],
     processing_time |-> 0, success |-> TRUE]

\* the aggregation writes into every record of the entry of page number pg
\* the page the Page Processor stored in it
AnnotationKeepsPage(pg, value) ==
    LET res == AggregatedResult(<< PageData(pg, value) >>)
    IN  /\ Len(res.paragraphs) = Len(value[1])
        /\ Len(res.footnotes) = Len(value[2])
        /\ \A k \in 1..Len(value[1]) : res.paragraphs[k].page = value[1][k].page
        /\ \A k \in 1..Len(value[2]) : res.footnotes[k].page = value[2][k].page

SourceCollection(c) ==
    IF c.chunk_type = "paragraph" THEN self_paragraphs ELSE self_footnotes

\* chunk c is made of record r: it has its number and its content
MadeOf(c, r) ==
    /\ c.content = r.content
    /\ IF c.chunk_type = "paragraph"
       THEN c.paragraph_numbers = << r.number >>
       ELSE c.footnote_numbers = << r.number >>

\* the pages that have a paragraph, and the pages of the paragraph chunks
ParagraphPages == {self_paragraphs[k].page : k \in 1..Len(self_paragraphs)}

ParagraphChunkPages ==
    {chunks[k].page_range[1] : k \in {i \in 1..Len(chunks) :
                                         chunks[i].chunk_type = "paragraph"}}

\* the footnotes on pages that have no paragraph
OrphanFootnotes ==
    {k \in 1..Len(self_footnotes) : self_footnotes[k].page \notin ParagraphPages}

\* C31: every chunk has page_range (p, p) with p the page of the record it is
\* made of; every footnote chunk is on a page that has a paragraph chunk
\* before it; and when the chunks are returned no chunk is on the page of a
\* footnote whose page has no paragraph.
C31_ChunkPagesComeFromParagraphs ==
    /\ \A k \in 1..Len(chunks) :
          LET c == chunks[k]
          IN  /\ c.page_range[1] = c.page_range[2]
              /\ \E j \in 1..Len(SourceCollection(c)) :
                    /\ MadeOf(c, SourceCollection(c)[j])
                    /\ c.page_range = << SourceCollection(c)[j].page,
                                         SourceCollection(c)[j].page >>
              /\ c.chunk_type = "footnote" =>
                    \E i \in 1..(k - 1) :
                       /\ chunks[i].chunk_type = "paragraph"
                       /\ chunks[i].page_range = c.page_range
    /\ doc_pc = "done" =>
          /\ {chunks[k].page_range[1] : k \in 1..Len(chunks)} = ParagraphPages
          /\ \A k \in OrphanFootnotes : \A i \in 1..Len(chunks) :
                chunks[i].page_range[1] # self_footnotes[k].page

\* C31 witness: chunks were returned, among them a footnote chunk, for
\* collections in which another footnote is on a page without paragraphs.
C31_Witness ==
    /\ doc_pc = "done"
    /\ OrphanFootnotes # {}
    /\ \E k \in 1..Len(chunks) : chunks[k].chunk_type = "footnote"

\* ------------------------------------------------------------------------
\* The Footnote Recognizer on footnotes that grow by continuation lines
\* ------------------------------------------------------------------------

\* 'of 12 May 2014 in the appeal' (28 characters)
FootLineDated ==
    << "o", "f", " ", "1", "2", " ", "M", "a", "y", " ", "2", "0", "1", "4",
       " ", "i", "n", " ", "t", "h", "e", " ", "a", "p", "p", "e", "a", "l" >>

\* the lines that follow the first line of the page
GrowPool == {FootLineCont, FootLineDated, FootLineHeader, FootLine2}

\* the text layer of a page that starts with a footnote and goes on with
\* continuation lines, a header, or the next footnote
GrowInit ==
    /\ fn_lines \in {<< a >> \o t : a \in {FootLine1, FootLineRich},
                                    t \in SeqsUpTo(GrowPool, MaxFollowLines)}
    /\ fn_page = 0
    /\ fn_idx = 0
    /\ footnotes = FreshFootnotes(<< >>)
    /\ current_footnote = None
    /\ fn_scan = 1
    /\ first_footnotes = << >>
    /\ fn_pc = "loop"

\* two calls of extract_footnotes_pymupdf on such a page
InitGrow == GrowInit /\ ParaIdle /\ PdfIdle /\ OrchIdle /\ DocIdle

SpecGrow == InitGrow /\ [][FootNext]_vars

\* footnote f was accepted and scored on the remainder of a number line among
\* the first n lines, and its content starts with that remainder
FixedByNumberLine(f, n) ==
    \E i \in 1..n :
        /\ ~Skipped(fn_lines[i])
        /\ FootnoteMatch(fn_lines[i]) # None
        /\ f.number = FootnoteMatch(fn_lines[i]).group1
        /\ LET remainder == FootnoteContent(fn_lines[i])
           IN  /\ _is_valid_footnote_pymupdf(remainder, f.number)
               /\ f.confidence = _calculate_footnote_confidence(remainder)
               /\ Len(f.content) >= Len(remainder)
               /\ SubSeq(f.content, 1, Len(remainder)) = remainder

\* the footnotes of the list, and the open one
FootnotesHeld ==
    {footnotes[k] : k \in 1..Len(footnotes)}
        \cup (IF current_footnote # None THEN {current_footnote} ELSE {})

\* the step scans a line that is neither skipped nor a number line
ScansContinuation ==
    /\ fn_pc = "loop"
    /\ fn_idx < Len(fn_lines)
    /\ fn_idx' = fn_idx + 1
    /\ ~Skipped(fn_lines[fn_idx + 1])
    /\ FootnoteMatch(fn_lines[fn_idx + 1]) = None

\* the step scans a number line, or ends the page
ClosesOpenFootnote ==
    /\ fn_pc = "loop"
    /\ \/ fn_pc' = "done"
       \/ /\ fn_idx < Len(fn_lines)
          /\ fn_idx' = fn_idx + 1
          /\ ~Skipped(fn_lines[fn_idx + 1])
          /\ FootnoteMatch(fn_lines[fn_idx + 1]) # None

\* C32: the validity and the confidence of a footnote are those of the
\* remainder of its number line: every footnote, open or emitted, passed
\* validation on that remainder and carries the confidence calculated on it,
\* whatever was appended since; a continuation line leaves an open footnote
\* open with the same number and confidence, changing its content at most;
\* and the open footnote is emitted as it is when the next number line or the
\* end of the page comes.
C32_FixedByNumberLine ==
    /\ [](\A f \in FootnotesHeld : FixedByNumberLine(f, fn_idx))
    /\ [][(ScansContinuation /\ current_footnote # None) =>
             /\ current_footnote' # None
             /\ current_footnote'.number = current_footnote.number
             /\ current_footnote'.confidence = current_footnote.confidence
             /\ footnotes' = footnotes]_vars
    /\ [][(ClosesOpenFootnote /\ current_footnote # None) =>
             footnotes' = Append(footnotes, current_footnote)]_vars

\* C32 witness: the page is scanned and an emitted footnote has a content
\* that matches a date pattern, which validation would refuse, and a content
\* of more than 50 characters with the confidence of a shorter one.
C32_Witness ==
    /\ fn_pc = "done"
    /\ \E k \in 1..Len(footnotes) :
          /\ HasDate(footnotes[k].content)
          /\ ~_is_valid_footnote_pymupdf(footnotes[k].content, footnotes[k].number)
    /\ \E k \in 1..Len(footnotes) :
          /\ Len(footnotes[k].content) > LengthBonusOver
          /\ footnotes[k].confidence
                # _calculate_footnote_confidence(footnotes[k].content)

\* ------------------------------------------------------------------------
\* The number patterns on short lines
\* ------------------------------------------------------------------------

\* longest line given to the patterns
MaxPatternLen == 6

\* the characters of these lines: a digit, the dot, a space and a letter
PatternChars == {"7", ".", " ", "a"}

\* a page of one line made of these characters
PatternInit ==
    /\ lines \in {<< l >> : l \in SeqsUpTo(PatternChars, MaxPatternLen)}
    /\ page_num = 0
    /\ line_num = 0
    /\ current_para = << >>
    /\ current_num = None
    /\ seen_numbers = {}
    /\ paragraphs = << >>
    /\ ocr_pc = "loop"

\* a run of extract_paragraphs_ocr on such a page
InitPattern == PatternInit /\ PdfIdle /\ OrchIdle /\ DocIdle /\ FootIdle

SpecPattern == InitPattern /\ [][ParaNext]_vars

\* a high-number pattern matches the line
HighMatches(line) ==
    \E k \in 1..Len(high_number_patterns) :
        ReMatch(high_number_patterns[k], line) # None

\* C33: with the default patterns, a line that a high-number pattern matches
\* is matched by a primary pattern, which captures the same number; so the
\* match of a line is the match of the primary patterns, and the
\* high-number patterns are tried only on lines none of them matches.
C33_HighNumberPatternsNeverDecide ==
    \A i \in 1..Len(lines) :
        /\ \A k \in 1..Len(high_number_patterns) :
              ReMatch(high_number_patterns[k], lines[i]) # None =>
                 /\ FirstMatch(paragraph_number_patterns, lines[i]) # None
                 /\ FirstMatch(paragraph_number_patterns, lines[i]).group1
                       = ReMatch(high_number_patterns[k], lines[i]).group1
        /\ ParaMatch(lines[i]) = FirstMatch(paragraph_number_patterns, lines[i])
        /\ FirstMatch(paragraph_number_patterns, lines[i]) = None =>
              ~HighMatches(lines[i])

\* C33 witness: the line scanned is one the 4-digit high-number pattern
\* matches, and the paragraph it starts has the number that pattern captures.
C33_Witness ==
    /\ line_num = 1
    /\ ReMatch(high_number_patterns[1], lines[1]) # None
    /\ current_num = ReMatch(high_number_patterns[1], lines[1]).group1

====
